---- MODULE Spec2Model ----
(***************************************************************************)
(* The per-guild batching/debounce collector of File-Manager-Bot and its   *)
(* drain pipeline: CollectorManager (timer-driven revision,                *)
(* src/src/managers/CollectorManager.ts lines 1-260).                      *)
(*                                                                         *)
(* Node runs every handler to completion; a handler is suspended only at   *)
(* an await.  Each action below is one run-to-completion segment: a public *)
(* method up to its first await, a timer callback, or the continuation of  *)
(* processBatch after one awaited I/O settles.                             *)
(***************************************************************************)
EXTENDS Integers, Sequences, FiniteSets, TLC

\* ----------------------------------------------------------------- bounds
\* Submissions (handleFileEvent calls) explored in one behaviour.
MaxSubmits == 3
\* Clock ticks explored in one behaviour.
MaxTicks == 4
\* The clock is observed every TickMs milliseconds: twice in a window.
TickMs == 30000

\* config.UPLOAD.BATCH_WAIT_MS
BATCH_WAIT_MS == 60 * 1000

Guilds == {"g1", "g2"}
\* The messages posted to the monitored channel and the .jar attachments of
\* each: m1 carries two files, m2 another file named like m1's first.
MessageIds == {"m1", "m2"}
Attachments(messageId) == IF messageId = "m1" THEN {"a.jar", "b.jar"} ELSE {"a.jar"}

VARIABLES
    now,            \* the clock, in ms
    pendingFiles,   \* CollectorManager.pendingFiles: guild -> Map(filename -> PendantFile)
    timers,         \* CollectorManager.timers: guild -> Timeout handle
    scheduled,      \* Node's timer queue: the Timeout handles that are armed
    drains,         \* every processBatch invocation that took a snapshot
    submitted,      \* history: the handleFileEvent calls in order, and what
                    \*          became of the PendantFile each one built (the
                    \*          call's arguments are kept while it is pending)
    window,         \* history: per guild, its handleFileEvent calls since the
                    \*          last timer callback or forceProcess
    lastOp,         \* history: the operation that produced the current state
    listed,         \* the array a caller got from its last getPendingFiles call
    output,         \* per guild: the output channels Discord holds and the
                    \* persisted id of the last one created
    inputfolder     \* per guild: the messages in its inputfolder channel, where
                    \* its createzip command stands and what it last replied

vars == <<now, pendingFiles, timers, scheduled, drains, submitted, window, lastOp,
         listed, output, inputfolder>>

\* ------------------------------------------------------------ the platform
\* message.author.username, message.url and attachment.url of a Discord
\* message: each is determined by the message (and the attachment's name).
Username(messageId) == <<"user-of", messageId>>
MessageUrl(messageId) == <<"link-to", messageId>>
AttachmentUrl(messageId, filename) == <<"cdn", messageId, filename>>

\* ------------------------------------------------------- a JavaScript Map
\* A Map<filename, PendantFile> is the sequence of its values in insertion
\* order; set() on a present key keeps the key's place.
\* Faulty variant: any entry at all counts as the key being present.
MapHas_Any(m, key) == Len(m) > 0
MapHas(m, key) == \E i \in 1..Len(m) : m[i].filename = key
MapGet(m, key) == m[CHOOSE i \in 1..Len(m) : m[i].filename = key]
\* Faulty variants, used to show that the properties below depend on MapSet:
\* a present key keeps its old value; a present key gets a second entry.
MapSet_KeepOld(m, key, value) ==
    IF MapHas(m, key) THEN m ELSE Append(m, value)
MapSet_Append(m, key, value) == Append(m, value)
MapSet(m, key, value) ==
    IF MapHas(m, key)
    THEN [i \in 1..Len(m) |-> IF m[i].filename = key THEN value ELSE m[i]]
    ELSE Append(m, value)
MapDelete(m, key) == SelectSeq(m, LAMBDA e : e.filename # key)
MapValues(m) == m
\* Faulty variant: guildFiles.clear() forgotten.
MapClear_Forgotten(m) == m
MapClear(m) == <<>>

\* A Map<guildId, X> is a function on the guilds that have an entry.
Put(f, k, v) == [x \in DOMAIN f \cup {k} |-> IF x = k THEN v ELSE f[x]]
\* Faulty variant: delete(key) empties the whole Map.
Remove_All(f, k) == <<>>
Remove(f, k) == [x \in DOMAIN f \ {k} |-> f[x]]

\* --------------------------------------------------------------- timers
\* A NodeJS.Timeout object: its identity, the guild its callback drains and
\* the time it is due.
FreeTimerIds == 1..(2 * Cardinality(Guilds) + 1)
UsedTimerIds == {h.id : h \in scheduled \cup {timers[g] : g \in DOMAIN timers}}
NewTimerId == CHOOSE i \in FreeTimerIds \ UsedTimerIds :
                 \A j \in FreeTimerIds \ UsedTimerIds : i <= j
SetTimeout(guildId, delay) ==
    [id |-> NewTimerId, guildId |-> guildId, deadline |-> now + delay]
\* Faulty variant: clearTimeout has no effect.
ClearTimeout_Ignored(queue, handle) == queue
ClearTimeout(queue, handle) == queue \ {handle}

\* -------------------------------------------------------------- the state
\* The PendantFile object handleFileEvent builds (lines 46-53).  sid is the
\* object's identity: the number of the handleFileEvent call that built it.
PendantFile(messageId, filename, isReplacement, sid) ==
    [messageId     |-> messageId,
     filename      |-> filename,
     url           |-> AttachmentUrl(messageId, filename),
     username      |-> Username(messageId),
     messageUrl    |-> MessageUrl(messageId),
     isReplacement |-> isReplacement,
     sid           |-> sid]

NoFile == "(none)"
\* No output channel id persisted; a drain whose notifier is not in its
\* rotation.
NoChannel == 0
NoRotation == [at |-> "none", old |-> NoChannel]
\* An inputfolder channel nobody has posted to, no createzip under way.
NoCommand == [messages |-> <<>>, command |-> "none", reply |-> NoFile, archived |-> {}]
\* No handleFileEvent since the guild's last timer callback or forceProcess.
NoWindow == [firstSubmitAt |-> -1, lastSubmitAt |-> -1, cancels |-> FALSE]
\* What became of the PendantFile objects sids, as history: "dropped" by a
\* cancel or a replacement, "drained" into a snapshot; and "twice" if an
\* object that had left the pending Map leaves it again.
Became(log, sids, fate) ==
    [s \in 1..Len(log) |->
        IF s \in sids
        THEN [guildId |-> log[s].guildId, messageId |-> NoFile, filename |-> NoFile,
              fate |-> IF log[s].fate = "pending" THEN fate ELSE "twice"]
        ELSE log[s]]
Sids(files) == {files[i].sid : i \in 1..Len(files)}
NoOp == [op |-> "init"]
\* No getPendingFiles call yet.
NoList == [kind |-> "none", guildId |-> NoFile, items |-> <<>>]

Init ==
    /\ now = 0
    /\ pendingFiles = <<>>
    /\ timers = <<>>
    /\ scheduled = {}
    /\ drains = <<>>
    /\ submitted = <<>>
    /\ window = [g \in Guilds |-> NoWindow]
    /\ lastOp = NoOp
    /\ listed = NoList
    /\ output = [g \in Guilds |-> [channels |-> {}, last |-> NoChannel]]
    /\ inputfolder = [g \in Guilds |-> NoCommand]

\* The armed Timeout handles whose callback drains guildId.
LiveTimers(guildId) == {h \in scheduled : h.guildId = guildId}
\* this.pendingFiles.get(guildId), an absent entry read as an empty Map.
GuildFiles(guildId) ==
    IF guildId \in DOMAIN pendingFiles THEN pendingFiles[guildId] ELSE <<>>

\* ---------------------------------------------------------- resetTimer
\* Faulty variants: the window runs from the first event (an armed timer is
\* left alone); the old timer is replaced in this.timers but not cleared.
resetTimer_KeepExisting(guildId) ==
    IF guildId \in DOMAIN timers /\ timers[guildId] \in scheduled
    THEN UNCHANGED <<scheduled, timers>>
    ELSE LET newTimer == SetTimeout(guildId, BATCH_WAIT_MS)
         IN  /\ scheduled' = scheduled \cup {newTimer}
             /\ timers' = Put(timers, guildId, newTimer)
resetTimer_NoClear(guildId) ==
    LET newTimer == SetTimeout(guildId, BATCH_WAIT_MS)
    IN  /\ scheduled' = scheduled \cup {newTimer}
        /\ timers' = Put(timers, guildId, newTimer)
\* Faulty variant: the recorded timer is cleared and none is armed.
resetTimer_ClearOnly(guildId) ==
    /\ scheduled' = IF guildId \in DOMAIN timers
                    THEN ClearTimeout(scheduled, timers[guildId])
                    ELSE scheduled
    /\ timers' = timers

\* lines 92-104: clear the recorded timer, arm a new one for the full wait
\* and record it.
resetTimer(guildId) ==
    LET cleared  == IF guildId \in DOMAIN timers
                    THEN ClearTimeout(scheduled, timers[guildId])
                    ELSE scheduled
        newTimer == SetTimeout(guildId, BATCH_WAIT_MS)
    IN  /\ scheduled' = cleared \cup {newTimer}
        /\ timers' = Put(timers, guildId, newTimer)

\* ------------------------------------------------------ handleFileEvent
\* lines 35-57
handleFileEvent(guildId, messageId, filename) ==
    LET created       == IF guildId \in DOMAIN pendingFiles
                         THEN pendingFiles
                         ELSE Put(pendingFiles, guildId, <<>>)
        guildFiles    == created[guildId]
        isReplacement == MapHas(guildFiles, filename)
        sid           == Len(submitted) + 1
        entry         == PendantFile(messageId, filename, isReplacement, sid)
    IN  /\ Len(submitted) < MaxSubmits
        /\ pendingFiles' = [created EXCEPT ![guildId] = MapSet(guildFiles, filename, entry)]
        /\ resetTimer(guildId)
        /\ submitted' = Append(
               Became(submitted,
                      {guildFiles[i].sid : i \in {j \in 1..Len(guildFiles) :
                                                    guildFiles[j].filename = filename}},
                      "dropped"),
               [guildId |-> guildId, messageId |-> messageId, filename |-> filename,
                fate |-> "pending"])
        /\ window' = [window EXCEPT ![guildId].lastSubmitAt = now,
                                     ![guildId].firstSubmitAt = IF @ = -1 THEN now ELSE @]
        /\ lastOp' = [op |-> "submit", guildId |-> guildId, isReplacement |-> isReplacement,
                      resubmits |-> /\ lastOp.op = "cancel"
                                    /\ lastOp.guildId = guildId
                                    /\ lastOp.removed = filename]
        /\ UNCHANGED <<now, drains, listed, output, inputfolder>>

\* ---------------------------------------------------- handleCancelEvent
\* lines 68-73: the first entry, in insertion order, of the given message.
FindByMessage(guildFiles, targetMessageId) ==
    LET hits == {i \in 1..Len(guildFiles) : guildFiles[i].messageId = targetMessageId}
    IN  IF hits = {} THEN NoFile
        ELSE guildFiles[CHOOSE i \in hits : \A j \in hits : i <= j].filename

\* Faulty variants: the timer is re-armed only while files remain; the
\* timer is re-armed whether or not an entry was found.
removeFound_NoRearmOnEmpty(guildId, foundFilename) ==
    IF foundFilename # NoFile
    THEN /\ pendingFiles' = [pendingFiles EXCEPT ![guildId] = MapDelete(@, foundFilename)]
         /\ IF Len(MapDelete(pendingFiles[guildId], foundFilename)) > 0
            THEN resetTimer(guildId)
            ELSE UNCHANGED <<timers, scheduled>>
         /\ submitted' = Became(submitted,
                                {MapGet(pendingFiles[guildId], foundFilename).sid}, "dropped")
         /\ window' = [window EXCEPT ![guildId].cancels = TRUE]
    ELSE UNCHANGED <<pendingFiles, timers, scheduled, submitted, window>>
removeFound_AlwaysRearm(guildId, foundFilename) ==
    /\ resetTimer(guildId)
    /\ IF foundFilename # NoFile
       THEN /\ pendingFiles' = [pendingFiles EXCEPT ![guildId] = MapDelete(@, foundFilename)]
            /\ submitted' = Became(submitted,
                                   {MapGet(pendingFiles[guildId], foundFilename).sid}, "dropped")
            /\ window' = [window EXCEPT ![guildId].cancels = TRUE]
       ELSE UNCHANGED <<pendingFiles, submitted, window>>

\* lines 75-80: what handleCancelEvent does with the result of its scan.
removeFound(guildId, foundFilename) ==
    IF foundFilename # NoFile
    THEN /\ pendingFiles' = [pendingFiles EXCEPT ![guildId] = MapDelete(@, foundFilename)]
         /\ resetTimer(guildId)
         /\ submitted' = Became(submitted,
                                {MapGet(pendingFiles[guildId], foundFilename).sid}, "dropped")
         /\ window' = [window EXCEPT ![guildId].cancels = TRUE]
    ELSE UNCHANGED <<pendingFiles, timers, scheduled, submitted, window>>

\* The pending entries of the guild that came from the given message.
Matching(guildId, targetMessageId) ==
    {i \in 1..Len(GuildFiles(guildId)) : GuildFiles(guildId)[i].messageId = targetMessageId}

\* Faulty variant: the cancel also takes the message's files out of the
\* snapshots of the guild's drains.
Snapshots_Cancelled(all, guildId, targetMessageId) ==
    [d \in 1..Len(all) |->
        IF all[d].guildId # guildId THEN all[d]
        ELSE LET kept == SelectSeq([i \in 1..Len(all[d].filesToProcess) |-> i],
                            LAMBDA i : all[d].filesToProcess[i].messageId
                                          # targetMessageId)
             IN  [all[d] EXCEPT
                    !.filesToProcess = [k \in 1..Len(kept) |->
                                           all[d].filesToProcess[kept[k]]],
                    !.downloads = [k \in 1..Len(kept) |-> all[d].downloads[kept[k]]]]]
\* lines 62-81: handleCancelEvent reads and writes this.pendingFiles and the
\* timer; the arrays the processBatch invocations hold are out of its reach.
Snapshots(all, guildId, targetMessageId) == all

\* lines 62-81.  The history names the message only when some pending entry
\* came from it.
handleCancelEvent(guildId, targetMessageId) ==
    LET foundFilename == IF guildId \in DOMAIN pendingFiles
                         THEN FindByMessage(pendingFiles[guildId], targetMessageId)
                         ELSE NoFile
    IN  /\ removeFound(guildId, foundFilename)
        /\ lastOp' = [op |-> "cancel", guildId |-> guildId, removed |-> foundFilename,
                      messageId |-> IF Matching(guildId, targetMessageId) = {}
                                    THEN NoFile ELSE targetMessageId]
        /\ drains' = Snapshots(drains, guildId, targetMessageId)
        /\ UNCHANGED <<now, listed, output, inputfolder>>

\* ------------------------------------------------------- processBatch
\* Faulty variant: forceProcess calls processBatch without awaiting it.
Await_NoWait(trigger, promise) == IF trigger = "force" THEN "resolved" ELSE "none"
\* What the caller of processBatch makes of the promise it returns: line 174,
\* forceProcess awaits it, so the promise forceProcess itself returned
\* settles as it does; lines 99-101, the timer callback drops it.
Await(trigger, promise) == IF trigger = "force" THEN promise ELSE "none"

\* The drain a processBatch invocation starts once it has its snapshot
\* (lines 112-118): every download is issued and none has settled.  promise
\* is the promise processBatch returned, future what its caller awaits.
NewDrain(guildId, trigger, filesToProcess) ==
    [guildId        |-> guildId,
     trigger        |-> trigger,
     promise        |-> "pending",
     future         |-> Await(trigger, "pending"),
     filesToProcess |-> filesToProcess,
     downloads      |-> [i \in 1..Len(filesToProcess) |-> "pending"],
     stage          |-> "downloading",
     uploadCalls    |-> 0,
     zipEntries     |-> <<>>,
     zipFilename    |-> NoFile,
     rotation       |-> NoRotation,
     gofileLink     |-> NoFile,
     notifyCalls    |-> 0,
     fileList       |-> <<>>]

\* processBatch has returned: its promise resolves and its locals are gone.
Returned(drain) ==
    [drain EXCEPT !.stage = "done", !.filesToProcess = <<>>, !.downloads = <<>>,
                  !.uploadCalls = 0, !.zipEntries = <<>>, !.gofileLink = NoFile,
                  !.zipFilename = NoFile, !.rotation = NoRotation,
                  !.notifyCalls = 0, !.fileList = <<>>,
                  !.promise = "resolved", !.future = Await(drain.trigger, "resolved")]

\* Faulty variant: the catch of line 164 throws the error on.
Caught_Rethrown(drain) ==
    [Returned(drain) EXCEPT !.promise = "rejected",
                            !.future = Await(drain.trigger, "rejected")]
\* lines 164-166: an error thrown inside the try block is logged by the
\* catch, and processBatch returns.
Caught(drain) == Returned(drain)

\* lines 107-108: no Map for the guild, or an empty one.
NothingPending_AbsentOnly(guildId) == guildId \notin DOMAIN pendingFiles
NothingPending(guildId) ==
    guildId \notin DOMAIN pendingFiles \/ Len(pendingFiles[guildId]) = 0
\* line 108: processBatch returns at once, this.timers as it found it.
EarlyReturn(recorded, guildId) == recorded

\* lines 106-118, the part of processBatch that runs before its first
\* await; recorded is this.timers as the caller left it.
processBatch(guildId, recorded, trigger) ==
    IF NothingPending(guildId)
    THEN /\ timers' = EarlyReturn(recorded, guildId)
         /\ UNCHANGED <<pendingFiles, drains, submitted>>
    ELSE /\ drains' = Append(drains,
                         NewDrain(guildId, trigger, MapValues(pendingFiles[guildId])))
         /\ submitted' = Became(submitted, Sids(MapValues(pendingFiles[guildId])), "drained")
         /\ pendingFiles' = [pendingFiles EXCEPT ![guildId] = MapClear(@)]
         /\ timers' = Remove(recorded, guildId)

\* The number of the drain the step started, 0 if it started none.
StartedDrain == IF Len(drains') > Len(drains) THEN Len(drains') ELSE 0

\* lines 99-101: an armed timer is due and Node runs its callback.
TimerFire(handle) ==
    /\ handle \in scheduled
    /\ now >= handle.deadline
    /\ scheduled' = scheduled \ {handle}
    /\ processBatch(handle.guildId, timers, "timer")
    /\ window' = [window EXCEPT ![handle.guildId] = NoWindow]
    /\ lastOp' = [op |-> "fire", guildId |-> handle.guildId, timer |-> handle,
                  drain |-> StartedDrain, window |-> window[handle.guildId]]
    /\ UNCHANGED <<now, listed, output, inputfolder>>

\* lines 169-175, up to the first await inside processBatch: what
\* forceProcess does to the collector, and what the history keeps of it.
forced(guildId) ==
    /\ IF guildId \in DOMAIN timers
       THEN /\ scheduled' = ClearTimeout(scheduled, timers[guildId])
            /\ processBatch(guildId, Remove(timers, guildId), "force")
       ELSE /\ scheduled' = scheduled
            /\ processBatch(guildId, timers, "force")
    /\ window' = [window EXCEPT ![guildId] = NoWindow]
    /\ lastOp' = [op |-> "force", guildId |-> guildId, drain |-> StartedDrain,
                  window |-> window[guildId],
                  future |-> IF StartedDrain = 0 THEN Await("force", "resolved")
                             ELSE drains'[StartedDrain].future]
forceProcess(guildId) ==
    /\ forced(guildId)
    /\ UNCHANGED <<now, listed, output, inputfolder>>

\* ------------------------------------------------------ getPendingFiles
\* Faulty variant: the caller is handed the guild's Map itself.
Listing_Live(guildId) == [kind |-> "live", guildId |-> guildId, items |-> <<>>]
\* lines 86-90: an empty array for a guild without a Map, else a new array
\* of the Map's values.
Listing(guildId) ==
    IF guildId \notin DOMAIN pendingFiles
    THEN [kind |-> "array", guildId |-> guildId, items |-> <<>>]
    ELSE [kind |-> "array", guildId |-> guildId,
          items |-> MapValues(pendingFiles[guildId])]
\* What a caller reads from the list it holds: an array is its own items, a
\* Map shows what it holds now.
Contents(list) ==
    IF list.kind = "live" THEN GuildFiles(list.guildId) ELSE list.items

getPendingFiles(guildId) ==
    /\ listed' = Listing(guildId)
    /\ lastOp' = [op |-> "list", guildId |-> guildId]
    /\ UNCHANGED <<now, pendingFiles, timers, scheduled, drains, submitted, window,
                   output, inputfolder>>

\* ------------------------------------------------------------- the clock
\* Time passes: step milliseconds, up to the horizon.
Tick(step, horizon) ==
    /\ now + step <= horizon
    /\ now' = now + step
    /\ lastOp' = [op |-> "tick"]
    /\ UNCHANGED <<pendingFiles, timers, scheduled, drains, submitted, window, listed,
                   output, inputfolder>>

\* -------------------------------------------------- the drain pipeline
\* processBatch after its snapshot is a chain of continuations, one per
\* awaited I/O.  Each is a function of the invocation's locals alone.
InFlight(d) == d \in 1..Len(drains) /\ drains[d].stage # "done"
Settled(drain) == \A i \in 1..Len(drain.downloads) : drain.downloads[i] # "pending"

\* lines 118-130: the axios.get of file i settles; a failure is caught per
\* file and becomes null.
AfterDownload(drain, i, ok) ==
    [drain EXCEPT !.downloads[i] = IF ok THEN "ok" ELSE "failed"]

\* Faulty variant: the failed downloads are not filtered out.
validDownloads_All(drain) == [i \in 1..Len(drain.filesToProcess) |-> i]
\* line 132: downloads.filter(d => d !== null), as indices into the snapshot.
validDownloads(drain) ==
    SelectSeq([i \in 1..Len(drain.filesToProcess) |-> i],
              LAMBDA i : drain.downloads[i] = "ok")

\* Faulty variants: one failed download aborts the drain; an empty set of
\* valid downloads is packed like any other.
AfterDownloads_AllOrNothing(drain) ==
    LET valid == validDownloads(drain)
    IN  IF Len(valid) < Len(drain.filesToProcess)
        THEN Returned(drain)
        ELSE [drain EXCEPT
                 !.stage = "packing",
                 !.zipEntries = [k \in 1..Len(valid) |->
                                    drain.filesToProcess[valid[k]].filename]]
AfterDownloads_PackEmpty(drain) ==
    LET valid == validDownloads(drain)
    IN  [drain EXCEPT
            !.stage = "packing",
            !.zipEntries = [k \in 1..Len(valid) |->
                               drain.filesToProcess[valid[k]].filename]]
\* lines 132-149: Promise.all has resolved; filter, return if nothing is
\* left, else append every valid download to the archive and finalize it.
AfterDownloads(drain) ==
    LET valid == validDownloads(drain)
    IN  IF Len(valid) = 0
        THEN Returned(drain)
        ELSE [drain EXCEPT
                 !.stage = "packing",
                 !.zipEntries = [k \in 1..Len(valid) |->
                                    drain.filesToProcess[valid[k]].filename]]

\* line 152: toISOString() is YYYY-MM-DDTHH:MM:SS.mmmZ in UTC; its first 19
\* characters, ':' replaced by '-', are the date and time down to the
\* second: the milliseconds are cut off.
Timestamp(ms) == ms \div 1000
\* line 153: the archive's name.
ZipFilename(ms) == <<"files_", Timestamp(ms), ".zip">>

\* lines 149-157: archive.finalize() settles.  The finished archive is
\* handed to GofileService.uploadFile; a rejection lands in the catch.
AfterPack(drain, ok) ==
    IF ok
    THEN [drain EXCEPT !.stage = "uploading", !.uploadCalls = @ + 1,
                       !.zipFilename = ZipFilename(now)]
    ELSE Caught(drain)

\* Faulty variant: the notification flags no file as a replacement.
FileList_Unflagged(drain) ==
    LET valid == validDownloads(drain)
    IN  [k \in 1..Len(valid) |->
            [filename      |-> drain.filesToProcess[valid[k]].filename,
             isReplacement |-> FALSE]]
\* line 161: one line of the notification per valid download.
FileList(drain) ==
    LET valid == validDownloads(drain)
    IN  [k \in 1..Len(valid) |->
            [filename      |-> drain.filesToProcess[valid[k]].filename,
             isReplacement |-> drain.filesToProcess[valid[k]].isReplacement]]

\* lines 157-166: GofileService.uploadFile settles.  A URL goes on to the
\* notifier; a rejection lands in the catch of line 164.  The archive's name
\* is not read again.
\* Faulty variant: a rejected upload is tried again.
AfterUpload_Retry(drain, ok) ==
    IF ok
    THEN [drain EXCEPT !.stage = "notifying",
                       !.gofileLink = "downloadPage",
                       !.zipFilename = NoFile,
                       !.fileList = FileList(drain),
                       !.notifyCalls = @ + 1]
    ELSE [drain EXCEPT !.uploadCalls = IF @ < 2 THEN @ + 1 ELSE @]
AfterUpload(drain, ok) ==
    IF ok
    THEN [drain EXCEPT !.stage = "notifying",
                       !.gofileLink = "downloadPage",
                       !.zipFilename = NoFile,
                       !.fileList = FileList(drain),
                       !.notifyCalls = @ + 1]
    ELSE Caught(drain)

\* lines 162-166: sendNotificationInNewChannel settles: resolved, and
\* processBatch returns; or rejected into the catch of line 164.
AfterNotifier(drain, ok) == IF ok THEN Returned(drain) ELSE Caught(drain)

\* ------------------------------------------------------------ the notifier
\* line 248 and part_005 line 175: the text of the notification, every
\* line of the manifest and then the download link.
Message(fileList, url) == [lines |-> fileList, url |-> url]
\* lines 211 and 256: the text sent to the input channel on a refusal.
PermissionNotice == "permission"

\* What Discord may answer the notifier that posts into a new channel:
\* whether the guild is in the cache, how the category is obtained, what
\* becomes of the old channel, how far creating the channel and sending
\* get (a refusal is error code 50013), whether the guild has an input
\* channel and whether a send to it succeeds.
NewChannelAnswers ==
    [mode : {"newChannel"}, guild : BOOLEAN,
     category : {"found", "created", "denied", "failed"},
     oldChannel : {"deleted", "failed"},
     channel : {"sent", "createDenied", "createFailed", "sendDenied", "sendFailed"},
     inputChannel : BOOLEAN, fallback : BOOLEAN]
\* What Discord may answer the notifier that posts into the configured
\* channel: no channel configured, the fetch throws, the channel is not a
\* text channel, the send succeeds or throws.
FixedChannelAnswers ==
    [mode : {"fixed"},
     channel : {"unset", "fetchFailed", "notText", "sent", "sendFailed"}]

\* lines 207-213 and 252-258: the catch logs the error and, on a refusal
\* in a guild with an input channel, sends the notice there; that send is
\* awaited outside any try, so its failure rejects the notifier.
Refused(answers, code, destination) ==
    IF code = "denied" /\ answers.inputChannel
    THEN IF answers.fallback
         THEN [messages |-> <<[channel |-> "input", text |-> PermissionNotice]>>,
               logs |-> <<"error">>, outcome |-> "resolved",
               destination |-> destination]
         ELSE [messages |-> <<>>, logs |-> <<"error">>, outcome |-> "rejected",
               destination |-> destination]
    ELSE [messages |-> <<>>, logs |-> <<"error">>, outcome |-> "resolved",
          destination |-> destination]

\* lines 177-259: what the notifier emits and logs, whether its promise
\* resolves, and whether it had a channel to post into.
sendNotificationInNewChannel(url, fileList, answers) ==
    LET warned == IF answers.oldChannel = "failed" THEN <<"warn">> ELSE <<>>
        Later(r) == [r EXCEPT !.logs = warned \o @]
    IN  IF ~answers.guild
        THEN [messages |-> <<>>, logs |-> <<>>, outcome |-> "resolved",
              destination |-> "unresolved"]
        ELSE IF answers.category \in {"denied", "failed"}
        THEN Refused(answers, answers.category, "unresolved")
        ELSE IF answers.channel = "sent"
        THEN [messages |-> <<[channel |-> "output", text |-> Message(fileList, url)]>>,
              logs |-> warned \o <<"created">>, outcome |-> "resolved",
              destination |-> "resolved"]
        ELSE IF answers.channel = "createDenied"
        THEN Later(Refused(answers, "denied", "unresolved"))
        ELSE IF answers.channel = "createFailed"
        THEN Later(Refused(answers, "failed", "unresolved"))
        ELSE IF answers.channel = "sendDenied"
        THEN Later(Refused(answers, "denied", "resolved"))
        ELSE Later(Refused(answers, "failed", "resolved"))

\* part_005 lines 165-182: the notifier that posts into the configured
\* channel.
sendNotification(url, fileList, answers) ==
    IF answers.channel = "sent"
    THEN [messages |-> <<[channel |-> "notify", text |-> Message(fileList, url)]>>,
          logs |-> <<"sent">>, outcome |-> "resolved", destination |-> "resolved"]
    ELSE IF answers.channel = "notText"
    THEN [messages |-> <<>>, logs |-> <<>>, outcome |-> "resolved",
          destination |-> "unresolved"]
    ELSE [messages |-> <<>>, logs |-> <<"error">>, outcome |-> "resolved",
          destination |-> IF answers.channel = "sendFailed" THEN "resolved"
                          ELSE "unresolved"]

\* Discord's channel ids: a new channel gets one that no channel has and
\* that nobody still holds.
ChannelIds == 1..(2 * MaxSubmits + 1)
HeldChannelIds(out, all) ==
    UNION {out[g].channels : g \in Guilds}
        \cup {out[g].last : g \in Guilds}
        \cup {all[d].rotation.old : d \in 1..Len(all)}
NewChannelId(out, all) ==
    CHOOSE i \in ChannelIds \ HeldChannelIds(out, all) :
       \A j \in ChannelIds \ HeldChannelIds(out, all) : i <= j
\* settings.getLastOutputChannelId / setLastOutputChannelId: one id per
\* guild, kept by the settings collaborator.
getLastOutputChannelId(out, guildId) == out[guildId].last
setLastOutputChannelId(out, guildId, id) == [out EXCEPT ![guildId].last = id]
\* lines 221-229: the old channel is fetched and deleted; a failure (the
\* channel is gone, or Discord refuses) is warned about and passed over.
DeleteOld(out, guildId, old, ok) ==
    IF ok /\ old \in out[guildId].channels
    THEN [out EXCEPT ![guildId].channels = @ \ {old}]
    ELSE out
\* lines 241-246: the new channel exists and its id is persisted.
CreateNew(out, guildId, id) ==
    setLastOutputChannelId([out EXCEPT ![guildId].channels = @ \cup {id}], guildId, id)

\* lines 177-259 with no other handler in between: the channels and the
\* persisted id after a run of the notifier against the given answers.
Rotated(out, all, guildId, answers) ==
    IF answers.mode = "fixed"
    THEN out
    ELSE IF ~answers.guild \/ answers.category \in {"denied", "failed"}
    THEN out
    ELSE LET old     == getLastOutputChannelId(out, guildId)
             deleted == IF old = NoChannel THEN out
                        ELSE DeleteOld(out, guildId, old, answers.oldChannel = "deleted")
         IN  IF answers.channel \in {"createDenied", "createFailed"}
             THEN deleted
             ELSE CreateNew(deleted, guildId, NewChannelId(out, all))

\* line 162 and part_005 line 158: the notifier the drain calls.
Notifier(drain, answers) ==
    IF answers.mode = "fixed"
    THEN sendNotification(drain.gofileLink, drain.fileList, answers)
    ELSE sendNotificationInNewChannel(drain.gofileLink, drain.fileList, answers)

\* Faulty variant: a drain that ends deletes the guild's entry of
\* this.timers, as the start of the drain does.
Continued_DeletesTimer(recorded, after) ==
    IF after.stage = "done" THEN Remove(recorded, after.guildId) ELSE recorded
\* lines 116-166: no statement after the snapshot writes this.timers; a
\* continuation leaves it as it finds it.
Continued(recorded, after) == recorded

\* The history keeps, of a step that ends a drain, the stage it ended in.
PipelineStep(d, after) ==
    /\ drains' = [drains EXCEPT ![d] = after]
    /\ timers' = Continued(timers, after)
    /\ lastOp' = [op |-> "pipeline",
                  ended |-> IF after.stage = "done" THEN drains[d].stage ELSE NoFile]
    /\ UNCHANGED <<now, pendingFiles, scheduled, submitted, window, listed, output, inputfolder>>

DownloadSettles(d, i, ok) ==
    /\ InFlight(d) /\ drains[d].stage = "downloading"
    /\ i \in 1..Len(drains[d].downloads)
    /\ drains[d].downloads[i] = "pending"
    /\ PipelineStep(d, AfterDownload(drains[d], i, ok))

DownloadsResolve(d) ==
    /\ InFlight(d) /\ drains[d].stage = "downloading"
    /\ Settled(drains[d])
    /\ PipelineStep(d, AfterDownloads(drains[d]))

PackSettles(d, ok) ==
    /\ InFlight(d) /\ drains[d].stage = "packing"
    /\ PipelineStep(d, AfterPack(drains[d], ok))

UploadSettles(d, ok) ==
    /\ InFlight(d) /\ drains[d].stage = "uploading"
    /\ PipelineStep(d, AfterUpload(drains[d], ok))

\* The notifier taken as one awaited call: how it settles, not what it
\* does to Discord's channels.
NotifierSettles(d, ok) ==
    /\ InFlight(d) /\ drains[d].stage = "notifying"
    /\ PipelineStep(d, AfterNotifier(drains[d], ok))

\* The notifier runs against Discord's answers and settles; a rejection is
\* logged by the catch of line 164.  The history keeps what it emitted and
\* what was logged.
NotifierRuns(d, answers) ==
    LET notice == Notifier(drains[d], answers)
        after  == AfterNotifier(drains[d], notice.outcome = "resolved")
    IN  /\ InFlight(d) /\ drains[d].stage = "notifying"
        /\ drains' = [drains EXCEPT ![d] = after]
        /\ timers' = Continued(timers, after)
        /\ lastOp' = [op |-> "pipeline", ended |-> "notifying",
                      messages |-> notice.messages,
                      logs |-> IF notice.outcome = "rejected"
                               THEN notice.logs \o <<"error">> ELSE notice.logs,
                      destination |-> notice.destination,
                      manifest |-> drains[d].fileList,
                      url |-> drains[d].gofileLink]
        /\ output' = Rotated(output, drains, drains[d].guildId, answers)
        /\ UNCHANGED <<now, pendingFiles, scheduled, submitted, window, listed, inputfolder>>

\* The notifier of lines 177-259 await by await.  rotation is where the
\* run stands and the old channel's id it read.
RotationStep(d, after, out) ==
    /\ drains' = [drains EXCEPT ![d] = after]
    /\ timers' = Continued(timers, after)
    /\ output' = out
    /\ lastOp' = [op |-> "pipeline",
                  ended |-> IF after.stage = "done" THEN drains[d].stage ELSE NoFile]
    /\ UNCHANGED <<now, pendingFiles, scheduled, submitted, window, listed, inputfolder>>

\* lines 178-221: the guild and the category are resolved; without them the
\* notifier returns, with them it reads the persisted id.
CategoryResolved(d, ok) ==
    /\ InFlight(d) /\ drains[d].stage = "notifying" /\ drains[d].rotation = NoRotation
    /\ LET old == getLastOutputChannelId(output, drains[d].guildId)
       IN  RotationStep(d,
              IF ok THEN [drains[d] EXCEPT !.rotation =
                             [at |-> IF old = NoChannel THEN "creating" ELSE "deleting",
                              old |-> old]]
              ELSE AfterNotifier(drains[d], TRUE),
              output)

\* lines 222-229: the fetch and the delete of the old channel settle.
OldChannelDeleted(d, ok) ==
    /\ InFlight(d) /\ drains[d].rotation.at = "deleting"
    /\ RotationStep(d, [drains[d] EXCEPT !.rotation.at = "creating"],
                    DeleteOld(output, drains[d].guildId, drains[d].rotation.old, ok))

\* lines 241-246 and 252-258: guild.channels.create settles; the new
\* channel's id is persisted, or the catch logs and the notifier returns.
ChannelCreated(d, ok) ==
    /\ InFlight(d) /\ drains[d].rotation.at = "creating"
    /\ IF ok
       THEN RotationStep(d, [drains[d] EXCEPT !.rotation.at = "sending"],
                         CreateNew(output, drains[d].guildId,
                                   NewChannelId(output, drains)))
       ELSE RotationStep(d, AfterNotifier(drains[d], TRUE), output)

\* lines 248-258: newChannel.send settles.
MessageSent(d, ok) ==
    /\ InFlight(d) /\ drains[d].rotation.at = "sending"
    /\ RotationStep(d, AfterNotifier(drains[d], TRUE), output)

\* The same continuations with no other handler running in between: every
\* download settles as results says, then the upload, then the notifier.
RunToCompletion(drain, results, uploadOk, notifyOk) ==
    LET packed == AfterDownloads([drain EXCEPT !.downloads =
                      [i \in 1..Len(drain.downloads) |->
                          IF i \in results THEN "ok" ELSE "failed"]])
        zipped == IF packed.stage = "packing" THEN AfterPack(packed, TRUE) ELSE packed
        sent   == IF zipped.stage = "uploading" THEN AfterUpload(zipped, uploadOk)
                  ELSE zipped
    IN  IF sent.stage = "notifying" THEN AfterNotifier(sent, notifyOk) ELSE sent

DrainCompletes(d, results, uploadOk, notifyOk) ==
    /\ InFlight(d) /\ drains[d].stage = "downloading"
    /\ \A i \in 1..Len(drains[d].downloads) : drains[d].downloads[i] = "pending"
    /\ results \subseteq 1..Len(drains[d].downloads)
    /\ PipelineStep(d, RunToCompletion(drains[d], results, uploadOk, notifyOk))

\* ------------------------------------------------------ the specification
\* The collector's operations on the guilds G for the messages M, the clock
\* advancing by step up to the horizon.
Core(G, M, step, horizon) ==
    \/ \E g \in G, m \in M : \E f \in Attachments(m) : handleFileEvent(g, m, f)
    \/ \E g \in G, m \in M : handleCancelEvent(g, m)
    \/ \E h \in scheduled : TimerFire(h)
    \/ \E g \in G : forceProcess(g)
    \/ Tick(step, horizon)

\* Every interleaving of the collector's operations on one guild; a drain's
\* awaited I/O settles back to back (every download fails or none does).
Next ==
    \/ Core({"g1"}, MessageIds, TickMs, MaxTicks * TickMs)
    \/ \E d \in 1..Len(drains) :
          \E results \in {{}, 1..Len(drains[d].downloads)}, uploadOk \in BOOLEAN :
             DrainCompletes(d, results, uploadOk, TRUE)

Spec == Init /\ [][Next]_vars

\* Every interleaving of the collector's operations on one guild, for one
\* message, with every awaited I/O of every drain, over one window of time.
NextDrain ==
    \/ Core({"g1"}, {"m1"}, BATCH_WAIT_MS, BATCH_WAIT_MS)
    \/ \E d \in 1..Len(drains) :
          \E i \in 1..Len(drains[d].downloads), ok \in BOOLEAN : DownloadSettles(d, i, ok)
    \/ \E d \in 1..Len(drains) : DownloadsResolve(d)
    \/ \E d \in 1..Len(drains), ok \in BOOLEAN : PackSettles(d, ok)
    \/ \E d \in 1..Len(drains), ok \in BOOLEAN : UploadSettles(d, ok)
    \/ \E d \in 1..Len(drains), ok \in BOOLEAN : NotifierSettles(d, ok)

SpecDrain == Init /\ [][NextDrain]_vars

\* The drains forceProcess starts, with every awaited I/O of each, while
\* files of one message are submitted and cancelled; no time passes.
NextForce ==
    \/ \E f \in Attachments("m1") : handleFileEvent("g1", "m1", f)
    \/ handleCancelEvent("g1", "m1")
    \/ forceProcess("g1")
    \/ \E d \in 1..Len(drains) :
          \E i \in 1..Len(drains[d].downloads), ok \in BOOLEAN : DownloadSettles(d, i, ok)
    \/ \E d \in 1..Len(drains) : DownloadsResolve(d)
    \/ \E d \in 1..Len(drains), ok \in BOOLEAN : PackSettles(d, ok)
    \/ \E d \in 1..Len(drains), ok \in BOOLEAN : UploadSettles(d, ok)
    \/ \E d \in 1..Len(drains), ok \in BOOLEAN : NotifierSettles(d, ok)
SpecForce == Init /\ [][NextForce]_vars

\* Every interleaving of the collector's operations on two guilds, one file
\* per message, a drain's awaited I/O settling back to back, over one window.
NextGuilds ==
    \/ Core(Guilds, {"m2"}, BATCH_WAIT_MS, BATCH_WAIT_MS)
    \/ \E d \in 1..Len(drains) :
          \E results \in {{}, 1..Len(drains[d].downloads)}, uploadOk \in BOOLEAN :
             DrainCompletes(d, results, uploadOk, TRUE)
SpecGuilds == Init /\ [][NextGuilds]_vars

\* The collector's operations on one guild with getPendingFiles calls in
\* between, for that guild and for one the collector has never seen; no
\* time passes.
NextList ==
    \/ \E f \in Attachments("m1") : handleFileEvent("g1", "m1", f)
    \/ handleCancelEvent("g1", "m1")
    \/ forceProcess("g1")
    \/ \E g \in Guilds : getPendingFiles(g)
    \/ \E d \in 1..Len(drains) :
          \E results \in {{}, 1..Len(drains[d].downloads)}, uploadOk \in BOOLEAN :
             DrainCompletes(d, results, uploadOk, TRUE)
SpecList == Init /\ [][NextList]_vars

\* Submissions and forced drains of one guild, one drain at a time and each
\* step by step, the notifier against every answer of Discord; no time
\* passes.
NextNotify ==
    \/ \E f \in Attachments("m1") : handleFileEvent("g1", "m1", f)
    \/ (\A d \in 1..Len(drains) : ~InFlight(d)) /\ forceProcess("g1")
    \/ \E d \in 1..Len(drains) :
          \E i \in 1..Len(drains[d].downloads), ok \in BOOLEAN : DownloadSettles(d, i, ok)
    \/ \E d \in 1..Len(drains) : DownloadsResolve(d)
    \/ \E d \in 1..Len(drains), ok \in BOOLEAN : PackSettles(d, ok)
    \/ \E d \in 1..Len(drains), ok \in BOOLEAN : UploadSettles(d, ok)
    \/ \E d \in 1..Len(drains) :
          \E answers \in NewChannelAnswers \cup FixedChannelAnswers :
             NotifierRuns(d, answers)
SpecNotify == Init /\ [][NextNotify]_vars

\* The clock of a process with an armed timer: time passes while a timer
\* is waiting to become due.  Every arming is a submission or a matched
\* cancellation, so the clock stays below LiveHorizon.
LiveHorizon == 2 * MaxSubmits * (BATCH_WAIT_MS + TickMs)
TimePasses ==
    /\ \E h \in scheduled : now < h.deadline
    /\ Tick(TickMs, LiveHorizon)
TimerFires == \E h \in scheduled : TimerFire(h)

\* One guild left to its timer: submissions, cancellations and forced
\* drains arrive at any time or not at all; time passes, and Node's event
\* loop runs the callback of a timer that is due.
NextLive ==
    \/ \E f \in Attachments("m1") : handleFileEvent("g1", "m1", f)
    \/ handleCancelEvent("g1", "m1")
    \/ forceProcess("g1")
    \/ TimerFires
    \/ TimePasses
    \/ \E d \in 1..Len(drains) :
          \E results \in {{}, 1..Len(drains[d].downloads)}, uploadOk \in BOOLEAN :
             DrainCompletes(d, results, uploadOk, TRUE)
SpecLive ==
    Init /\ [][NextLive]_vars /\ WF_vars(TimePasses) /\ WF_vars(TimerFires)

\* Every operation of the collector on one guild, getPendingFiles among
\* them, for one file over one window; a drain's awaited I/O settles back
\* to back.
NextAbsent ==
    \/ Core({"g1"}, {"m2"}, BATCH_WAIT_MS, BATCH_WAIT_MS)
    \/ getPendingFiles("g1")
    \/ \E d \in 1..Len(drains) :
          \E results \in {{}, 1..Len(drains[d].downloads)}, uploadOk \in BOOLEAN :
             DrainCompletes(d, results, uploadOk, TRUE)
SpecAbsent == Init /\ [][NextAbsent]_vars

\* Forced drains of one guild, each step by step and its notifier await by
\* await, so that the notifiers of two drains may overlap; Discord deletes
\* and creates as asked or refuses; no time passes.
NextRotate ==
    \/ \E f \in Attachments("m2") : handleFileEvent("g1", "m2", f)
    \/ forceProcess("g1")
    \/ \E d \in 1..Len(drains) : DownloadSettles(d, 1, TRUE)
    \/ \E d \in 1..Len(drains) : DownloadsResolve(d)
    \/ \E d \in 1..Len(drains) : PackSettles(d, TRUE)
    \/ \E d \in 1..Len(drains) : UploadSettles(d, TRUE)
    \/ \E d \in 1..Len(drains), ok \in BOOLEAN : CategoryResolved(d, ok)
    \/ \E d \in 1..Len(drains), ok \in BOOLEAN : OldChannelDeleted(d, ok)
    \/ \E d \in 1..Len(drains), ok \in BOOLEAN : ChannelCreated(d, ok)
    \/ \E d \in 1..Len(drains), ok \in BOOLEAN : MessageSent(d, ok)
SpecRotate == Init /\ [][NextRotate]_vars

\* The same with Discord doing everything it is asked to.
NextOverlap ==
    \/ \E f \in Attachments("m2") : handleFileEvent("g1", "m2", f)
    \/ forceProcess("g1")
    \/ \E d \in 1..Len(drains) : DownloadSettles(d, 1, TRUE)
    \/ \E d \in 1..Len(drains) : DownloadsResolve(d)
    \/ \E d \in 1..Len(drains) : PackSettles(d, TRUE)
    \/ \E d \in 1..Len(drains) : UploadSettles(d, TRUE)
    \/ \E d \in 1..Len(drains) : CategoryResolved(d, TRUE)
    \/ \E d \in 1..Len(drains) : OldChannelDeleted(d, TRUE)
    \/ \E d \in 1..Len(drains) : ChannelCreated(d, TRUE)
    \/ \E d \in 1..Len(drains) : MessageSent(d, TRUE)
SpecOverlap == Init /\ [][NextOverlap]_vars

\* ------------------------------------------- the manual-workflow revision
\* CollectorManager.ts lines 262-530 and the handlers of DiscordClient.ts
\* lines 176-389: files are collected as they are posted and again by the
\* createzip command, which then forces the drain.
\* Submissions explored in one behaviour of the manual revision.
MaxCollected == 2 * MaxSubmits
\* The .jar attachments of a message in the order Discord lists them.
AttachmentSeq(messageId) ==
    IF messageId = "m1" THEN <<"a.jar", "b.jar">> ELSE <<"a.jar">>
\* The collector's fields, for the calls a handler makes one after another.
Fields == [pendingFiles |-> pendingFiles, submitted |-> submitted,
           timers |-> timers, scheduled |-> scheduled]

\* Faulty variant: the call is still there, as in the timer-driven revision.
resetTimerManual_Armed(st, guildId) ==
    LET cleared  == IF guildId \in DOMAIN st.timers
                    THEN ClearTimeout(st.scheduled, st.timers[guildId])
                    ELSE st.scheduled
        newTimer == SetTimeout(guildId, BATCH_WAIT_MS)
    IN  [st EXCEPT !.scheduled = cleared \cup {newTimer},
                   !.timers = Put(st.timers, guildId, newTimer)]
\* lines 319 and 342: the resetTimer call is commented out.
resetTimerManual(st, guildId) == st

\* lines 297-320
handleFileEventManual(st, guildId, messageId, filename) ==
    LET created       == IF guildId \in DOMAIN st.pendingFiles
                         THEN st.pendingFiles
                         ELSE Put(st.pendingFiles, guildId, <<>>)
        guildFiles    == created[guildId]
        isReplacement == MapHas(guildFiles, filename)
        sid           == Len(st.submitted) + 1
        entry         == PendantFile(messageId, filename, isReplacement, sid)
    IN  resetTimerManual(
           [st EXCEPT
              !.pendingFiles = [created EXCEPT ![guildId] =
                                   MapSet(guildFiles, filename, entry)],
              !.submitted = Append(
                  Became(st.submitted,
                         {guildFiles[i].sid : i \in {j \in 1..Len(guildFiles) :
                                                       guildFiles[j].filename = filename}},
                         "dropped"),
                  [guildId |-> guildId, messageId |-> messageId, filename |-> filename,
                   fate |-> "pending"])],
           guildId)

\* DiscordClient.ts lines 294-298 and 374-377: handleFileEvent for every
\* .jar attachment of the message, from the k-th on.
RECURSIVE ForEachAttachment(_, _, _, _)
ForEachAttachment(st, guildId, messageId, k) ==
    IF k > Len(AttachmentSeq(messageId)) THEN st
    ELSE ForEachAttachment(
            handleFileEventManual(st, guildId, messageId, AttachmentSeq(messageId)[k]),
            guildId, messageId, k + 1)
\* DiscordClient.ts lines 268-308: the channel's messages as Discord
\* returns them, the newest first, from the k-th posted down.
RECURSIVE Scan(_, _, _, _)
Scan(st, guildId, messages, k) ==
    IF k = 0 THEN st
    ELSE Scan(ForEachAttachment(st, guildId, messages[k], 1), guildId, messages, k - 1)

Stored(st) ==
    /\ Len(st.submitted) <= MaxCollected
    /\ pendingFiles' = st.pendingFiles
    /\ submitted' = st.submitted
    /\ timers' = st.timers
    /\ scheduled' = st.scheduled

\* DiscordClient.ts lines 350-379: a message with .jar attachments is
\* posted to the inputfolder channel.
messageCreate(guildId, messageId) ==
    /\ \A i \in 1..Len(inputfolder[guildId].messages) :
          inputfolder[guildId].messages[i] # messageId
    /\ inputfolder' = [inputfolder EXCEPT ![guildId].messages = Append(@, messageId)]
    /\ Stored(ForEachAttachment(Fields, guildId, messageId, 1))
    /\ lastOp' = [op |-> "message", guildId |-> guildId, messageId |-> messageId]
    /\ UNCHANGED <<now, drains, window, listed, output>>

\* lines 325-344, called by DiscordClient.ts lines 381-387 for a reply
\* that says cancel.
handleCancelEventManual(guildId, targetMessageId) ==
    LET foundFilename == IF guildId \in DOMAIN pendingFiles
                         THEN FindByMessage(pendingFiles[guildId], targetMessageId)
                         ELSE NoFile
    IN  /\ IF foundFilename # NoFile
           THEN /\ pendingFiles' = [pendingFiles EXCEPT
                                      ![guildId] = MapDelete(@, foundFilename)]
                /\ submitted' = Became(submitted,
                                       {MapGet(pendingFiles[guildId], foundFilename).sid},
                                       "dropped")
           ELSE UNCHANGED <<pendingFiles, submitted>>
        /\ lastOp' = [op |-> "cancel", guildId |-> guildId, removed |-> foundFilename,
                      messageId |-> IF Matching(guildId, targetMessageId) = {}
                                    THEN NoFile ELSE targetMessageId]
        /\ UNCHANGED <<now, timers, scheduled, drains, window, listed, output,
                       inputfolder>>

\* DiscordClient.ts lines 259-318: createzip scans the channel, hands every
\* .jar attachment it finds to the collector, and replies that nothing was
\* found or that the upload is under way.
createzipScans(guildId) ==
    LET st    == Scan(Fields, guildId, inputfolder[guildId].messages,
                      Len(inputfolder[guildId].messages))
        found == IF guildId \in DOMAIN st.pendingFiles
                 THEN MapValues(st.pendingFiles[guildId]) ELSE <<>>
    IN  /\ inputfolder[guildId].command = "none"
        /\ Stored(st)
        /\ inputfolder' = [inputfolder EXCEPT
               ![guildId].command = IF Len(found) = 0 THEN "none" ELSE "scanned",
               ![guildId].reply = IF Len(found) = 0 THEN "notFound" ELSE "working"]
        /\ lastOp' = [op |-> "scan", guildId |-> guildId, found |-> Len(found)]
        /\ UNCHANGED <<now, drains, window, listed, output>>

\* The reply of DiscordClient.ts line 320.
UploadComplete == "complete"
\* DiscordClient.ts lines 319-320 and CollectorManager.ts lines 432-438:
\* forceProcess is called and awaited; if it started no drain its promise
\* is resolved already and the reply follows.
createzipForces(guildId) ==
    /\ inputfolder[guildId].command = "scanned"
    /\ forced(guildId)
    /\ inputfolder' = [inputfolder EXCEPT
           ![guildId].command = IF StartedDrain = 0 THEN "none" ELSE "awaiting",
           ![guildId].reply = IF StartedDrain = 0 THEN UploadComplete ELSE @]
    /\ UNCHANGED <<now, listed, output>>

\* CollectorManager.ts lines 369-430 and DiscordClient.ts line 320: the
\* drain's awaited I/O settles back to back, processBatch returns, the
\* promise createzip awaits resolves and createzip replies.  The history
\* keeps how many files the drain took, how many it fetched, whether the
\* archive was uploaded, and the reply.
createzipCompletes(d, results, uploadOk) ==
    LET after    == RunToCompletion(drains[d], results, uploadOk, TRUE)
        guildId  == drains[d].guildId
        uploaded == results # {} /\ uploadOk
        packed   == {<<drains[d].filesToProcess[i].messageId,
                       drains[d].filesToProcess[i].filename>> : i \in results}
    IN  /\ InFlight(d) /\ drains[d].stage = "downloading"
        /\ inputfolder[guildId].command = "awaiting"
        /\ results \subseteq 1..Len(drains[d].downloads)
        /\ drains' = [drains EXCEPT ![d] = after]
        /\ timers' = Continued(timers, after)
        /\ inputfolder' = [inputfolder EXCEPT
               ![guildId].command = "none",
               ![guildId].reply = UploadComplete,
               ![guildId].archived = IF uploaded THEN @ \cup packed ELSE @]
        /\ lastOp' = [op |-> "pipeline", guildId |-> guildId,
                      ended |-> IF results = {} THEN "downloading"
                                ELSE IF uploadOk THEN "notifying" ELSE "uploading",
                      attempted |-> Len(drains[d].filesToProcess),
                      succeeded |-> Cardinality(results),
                      again |-> IF uploaded
                                THEN packed \cap inputfolder[guildId].archived ELSE {},
                      reply |-> UploadComplete]
        /\ UNCHANGED <<now, pendingFiles, scheduled, submitted, window, listed, output>>

\* The manual revision in one guild: messages are posted, replies cancel
\* them, createzip is run, time passes.
NextManual ==
    \/ \E m \in MessageIds : messageCreate("g1", m)
    \/ \E m \in MessageIds : handleCancelEventManual("g1", m)
    \/ createzipScans("g1")
    \/ createzipForces("g1")
    \/ \E d \in 1..Len(drains) :
          \E results \in SUBSET (1..Len(drains[d].downloads)), uploadOk \in BOOLEAN :
             createzipCompletes(d, results, uploadOk)
    \/ Tick(BATCH_WAIT_MS, BATCH_WAIT_MS)
SpecManual == Init /\ [][NextManual]_vars

\* ============================================================ properties
InFlightOf(guildId) == {d \in 1..Len(drains) : InFlight(d) /\ drains[d].guildId = guildId}
Filenames_ok(drain) ==
    {drain.filesToProcess[i].filename :
        i \in {j \in 1..Len(drain.filesToProcess) : drain.downloads[j] = "ok"}}
Range(seq) == {seq[i] : i \in 1..Len(seq)}

\* C1: in every reachable state, no guild has two drains that have taken
\* their snapshot and have not completed.
C1_AtMostOneDrainInFlight ==
    \A g \in Guilds : Cardinality(InFlightOf(g)) <= 1

\* C2: snapshot isolation.  The step that starts a drain copies the guild's
\* whole pending Map and leaves it empty, with no download settled and no
\* upload issued; a drain in flight keeps that snapshot and packs and lists
\* only files of it; a file submitted meanwhile is in no drain's snapshot,
\* and if it lands in the emptied Map it is alone there, with a timer of its
\* own armed for the full window.
C2_Step ==
    /\ Len(drains') > Len(drains) =>
          LET d == drains'[Len(drains')]
          IN  /\ Len(drains') = Len(drains) + 1
              /\ d.filesToProcess = pendingFiles[d.guildId]
              /\ Len(d.filesToProcess) > 0
              /\ pendingFiles'[d.guildId] = <<>>
              /\ d.stage = "downloading"
              /\ \A i \in 1..Len(d.downloads) : d.downloads[i] = "pending"
              /\ d.uploadCalls = 0 /\ d.notifyCalls = 0
    /\ \A d \in 1..Len(drains) :
          (drains[d].stage # "done" /\ drains'[d].stage # "done") =>
             /\ drains'[d].filesToProcess = drains[d].filesToProcess
             /\ Range(drains'[d].zipEntries) \subseteq Filenames_ok(drains'[d])
             /\ {e.filename : e \in Range(drains'[d].fileList)} \subseteq Filenames_ok(drains'[d])
    /\ lastOp'.op = "submit" =>
          LET g == lastOp'.guildId
              sid == Len(submitted')
          IN  /\ drains' = drains
              /\ \A d \in 1..Len(drains) : sid \notin Sids(drains'[d].filesToProcess)
              /\ sid \in Sids(pendingFiles'[g])
              /\ (InFlightOf(g) # {} /\ GuildFiles(g) = <<>>) =>
                    /\ Len(pendingFiles'[g]) = 1
                    /\ g \in DOMAIN timers'
                    /\ {h \in scheduled' : h.guildId = g} = {timers'[g]}
                    /\ timers'[g].deadline = now + BATCH_WAIT_MS
C2_SnapshotIsolation == [][C2_Step]_vars
\* A file was submitted while a drain of the same guild is uploading.
C2_Witness ==
    /\ lastOp.op = "submit"
    /\ \E d \in InFlightOf(lastOp.guildId) :
          /\ drains[d].stage = "uploading"
          /\ Sids(pendingFiles[lastOp.guildId]) = {Len(submitted)}
          /\ \A s \in Sids(drains[d].filesToProcess) : s < Len(submitted)
    /\ LiveTimers(lastOp.guildId) # {}

\* C3: debounce.  When a timer callback runs for a guild whose events since
\* the previous callback or forceProcess were submissions only, the timer
\* that fired was due exactly one window after the last submission and runs
\* no earlier, it drains everything pending, and it leaves no timer armed
\* and nothing pending: no drain started inside the burst, one starts after.
C3_Debounce ==
    (lastOp.op = "fire" /\ lastOp.window.lastSubmitAt >= 0 /\ ~lastOp.window.cancels) =>
        /\ lastOp.timer.deadline = lastOp.window.lastSubmitAt + BATCH_WAIT_MS
        /\ now >= lastOp.window.lastSubmitAt + BATCH_WAIT_MS
        /\ lastOp.drain # 0
        /\ drains[lastOp.drain].trigger = "timer"
        /\ Len(drains[lastOp.drain].filesToProcess) > 0
        /\ \A s \in 1..Len(submitted) :
              submitted[s].guildId = lastOp.guildId => submitted[s].fate # "pending"
        /\ GuildFiles(lastOp.guildId) = <<>>
        /\ LiveTimers(lastOp.guildId) = {}
\* Two submissions at different times, closer than a window, then the drain
\* one window after the second.
C3_Witness ==
    /\ lastOp.op = "fire" /\ ~lastOp.window.cancels
    /\ lastOp.window.firstSubmitAt >= 0
    /\ lastOp.window.firstSubmitAt < lastOp.window.lastSubmitAt
    /\ lastOp.window.lastSubmitAt - lastOp.window.firstSubmitAt < BATCH_WAIT_MS
    /\ now = lastOp.window.lastSubmitAt + BATCH_WAIT_MS
    /\ lastOp.drain # 0
    /\ Len(drains[lastOp.drain].filesToProcess) = 2

\* C4: nothing is lost or processed twice.  Every PendantFile ever built is
\* in exactly one place: once in its guild's pending Map (while pending),
\* or out of it for good, dropped by a cancel or a replacement or taken by
\* one snapshot; none leaves the Map twice, and a file held by a drain in
\* flight is held by that drain alone.
Occurrences(files, sid) == Cardinality({i \in 1..Len(files) : files[i].sid = sid})
C4_NoLossNoDouble ==
    \A s \in 1..Len(submitted) :
        /\ submitted[s].fate \in {"pending", "dropped", "drained"}
        /\ \A g \in Guilds :
              Occurrences(GuildFiles(g), s) =
                 IF g = submitted[s].guildId /\ submitted[s].fate = "pending" THEN 1 ELSE 0
        /\ Cardinality({d \in 1..Len(drains) :
                           Occurrences(drains[d].filesToProcess, s) > 0}) <= 1
        /\ \A d \in 1..Len(drains) :
              /\ Occurrences(drains[d].filesToProcess, s) <= 1
              /\ Occurrences(drains[d].filesToProcess, s) = 1 =>
                    submitted[s].fate = "drained"
\* One file dropped, one held by a drain in flight, one pending behind it.
C4_Witness ==
    /\ Len(submitted) = 3
    /\ \E a, b, c \in 1..3 :
          /\ submitted[a].fate = "dropped"
          /\ submitted[b].fate = "drained"
          /\ submitted[c].fate = "pending"
          /\ \E d \in 1..Len(drains) : b \in Sids(drains[d].filesToProcess)

\* C5: the drain guarantee.  A drain calls the upload at most once and the
\* notifier at most once; the notifier only with the URL of a successful
\* upload; and the files it lists are exactly the files of the snapshot
\* whose download succeeded.  A failed upload ends the drain.
C5_DrainGuarantee ==
    \A d \in 1..Len(drains) :
        LET drain == drains[d]
        IN  /\ drain.uploadCalls <= 1
            /\ drain.notifyCalls <= 1
            /\ drain.stage \in {"downloading", "packing"} =>
                  (drain.uploadCalls = 0 /\ drain.notifyCalls = 0)
            /\ drain.stage = "uploading" => (drain.uploadCalls = 1 /\ drain.notifyCalls = 0)
            /\ drain.notifyCalls = 1 =>
                  /\ drain.stage = "notifying"
                  /\ drain.uploadCalls = 1
                  /\ drain.gofileLink # NoFile
                  /\ {e.filename : e \in Range(drain.fileList)} = Filenames_ok(drain)
                  /\ Len(drain.fileList) = Cardinality(Filenames_ok(drain))
                  /\ Range(drain.zipEntries) = Filenames_ok(drain)
\* The notifier is running for a snapshot of two files, one of which failed
\* to download.
C5_Witness ==
    \E d \in 1..Len(drains) :
        /\ drains[d].stage = "notifying"
        /\ Len(drains[d].filesToProcess) = 2
        /\ Cardinality(Filenames_ok(drains[d])) = 1
        /\ drains[d].notifyCalls = 1

\* C6: dedup by filename.  A guild's pending Map never holds two entries of
\* one filename, and each entry is the latest pending submission of its
\* name: message id, url, username and message link are all those of one
\* handleFileEvent call, which is still pending, and no later call for the
\* same guild and filename is.
C6_DedupByFilename ==
    \A g \in Guilds :
        LET files == GuildFiles(g)
        IN  /\ \A i, j \in 1..Len(files) : files[i].filename = files[j].filename => i = j
            /\ \A i \in 1..Len(files) :
                  LET e == files[i]
                  IN  /\ e.sid \in 1..Len(submitted)
                      /\ submitted[e.sid] = [guildId |-> g, messageId |-> e.messageId,
                                             filename |-> e.filename, fate |-> "pending"]
                      /\ e.url = AttachmentUrl(submitted[e.sid].messageId, e.filename)
                      /\ e.username = Username(submitted[e.sid].messageId)
                      /\ e.messageUrl = MessageUrl(submitted[e.sid].messageId)
                      /\ \A s \in 1..Len(submitted) :
                            (submitted[s].guildId = g /\ submitted[s].filename = e.filename)
                               => s = e.sid
\* A file posted by m1 was replaced by the same filename posted by m2: one
\* entry, of m2.
C6_Witness ==
    /\ lastOp.op = "submit" /\ lastOp.isReplacement
    /\ Len(submitted) = 2
    /\ submitted[1].fate = "dropped"
    /\ Len(GuildFiles(lastOp.guildId)) = 1
    /\ GuildFiles(lastOp.guildId)[1].messageId = "m2"
    /\ GuildFiles(lastOp.guildId)[1].url = AttachmentUrl("m2", "a.jar")

\* C7: every submit re-arms the debounce.  Right after handleFileEvent the
\* guild has exactly one armed timer, the one recorded for it, newly created
\* and due one full window from now; every timer armed for the guild before
\* the call is disarmed.
C7_Step ==
    lastOp'.op = "submit" =>
        LET g == lastOp'.guildId
        IN  /\ g \in DOMAIN timers'
            /\ {h \in scheduled' : h.guildId = g} = {timers'[g]}
            /\ timers'[g].deadline = now' + BATCH_WAIT_MS
            /\ timers'[g] \notin scheduled
            /\ \A h \in LiveTimers(g) : h \notin scheduled'
C7_SubmitRearms == [][C7_Step]_vars
\* A submission some time into a window whose timer was armed earlier.
C7_Witness ==
    /\ lastOp.op = "submit"
    /\ window[lastOp.guildId].firstSubmitAt >= 0
    /\ window[lastOp.guildId].firstSubmitAt < now
    /\ LiveTimers(lastOp.guildId) = {timers[lastOp.guildId]}
    /\ timers[lastOp.guildId].deadline = now + BATCH_WAIT_MS

\* C8: a cancel that matches.  When some pending entry of the guild came from
\* the given message, handleCancelEvent removes one such entry and no other,
\* and re-arms the guild's timer for the full window, also when the Map is
\* left empty.
C8_Step ==
    (lastOp'.op = "cancel" /\ lastOp'.messageId # NoFile) =>
        LET g == lastOp'.guildId
            files == GuildFiles(g)
            matching == {e \in Range(files) : e.messageId = lastOp'.messageId}
        IN  matching # {} =>
               /\ \E e \in matching :
                     /\ lastOp'.removed = e.filename
                     /\ Range(pendingFiles'[g]) = Range(files) \ {e}
               /\ Len(pendingFiles'[g]) = Len(files) - 1
               /\ {h \in scheduled' : h.guildId = g} = {timers'[g]}
               /\ timers'[g].deadline = now' + BATCH_WAIT_MS
               /\ timers'[g] \notin scheduled
C8_CancelMatch == [][C8_Step]_vars
\* The only pending file was cancelled some time after it was submitted: the
\* Map is empty and the timer is armed for a full window.
C8_Witness ==
    /\ lastOp.op = "cancel" /\ lastOp.removed # NoFile
    /\ now > 0
    /\ pendingFiles[lastOp.guildId] = <<>>
    /\ LiveTimers(lastOp.guildId) = {timers[lastOp.guildId]}
    /\ timers[lastOp.guildId].deadline = now + BATCH_WAIT_MS

\* C9: a cancel that matches nothing.  When no pending entry of the guild
\* came from the given message (no entry for the guild, an unknown message,
\* one whose file was replaced, one already drained; the history then names
\* no message), handleCancelEvent reports nothing removed and changes
\* neither the pending Maps nor the recorded or armed timers.
C9_Step ==
    (lastOp'.op = "cancel" /\ lastOp'.messageId = NoFile) =>
        /\ lastOp'.removed = NoFile
        /\ pendingFiles' = pendingFiles
        /\ timers' = timers
        /\ scheduled' = scheduled
        /\ drains' = drains
C9_CancelNoMatch == [][C9_Step]_vars
\* A cancel for a message whose file a drain in flight already took, while a
\* later file is pending with its timer armed.
C9_Witness ==
    /\ lastOp.op = "cancel" /\ lastOp.removed = NoFile
    /\ Len(GuildFiles(lastOp.guildId)) = 1
    /\ LiveTimers(lastOp.guildId) # {}
    /\ \E d \in InFlightOf(lastOp.guildId) :
          \E e \in Range(drains[d].filesToProcess) :
             e.messageId # GuildFiles(lastOp.guildId)[1].messageId

\* C10: a forced drain bypasses and cancels the timer.  Right after
\* forceProcess the guild has no armed and no recorded timer and nothing
\* pending, whatever the clock; and if files were submitted since the last
\* drain and none cancelled, a drain of them has started.
C10_ForcedDrain ==
    lastOp.op = "force" =>
        /\ LiveTimers(lastOp.guildId) = {}
        /\ lastOp.guildId \notin DOMAIN timers
        /\ GuildFiles(lastOp.guildId) = <<>>
        /\ \A s \in 1..Len(submitted) :
              submitted[s].guildId = lastOp.guildId => submitted[s].fate # "pending"
        /\ (lastOp.window.lastSubmitAt >= 0 /\ ~lastOp.window.cancels) =>
              /\ lastOp.drain # 0
              /\ drains[lastOp.drain].trigger = "force"
              /\ drains[lastOp.drain].guildId = lastOp.guildId
              /\ Len(drains[lastOp.drain].filesToProcess) > 0
\* forceProcess started a drain before the window of the last submission
\* had elapsed.
C10_Witness ==
    /\ lastOp.op = "force" /\ lastOp.drain # 0
    /\ lastOp.window.lastSubmitAt >= 0
    /\ now < lastOp.window.lastSubmitAt + BATCH_WAIT_MS
    /\ scheduled = {}

\* C11: forceProcess is synchronous for its caller.  The promise returned
\* by a forceProcess call that started a drain is pending right after the
\* call and for as long as that drain is in flight, whatever stage it is
\* in, and is resolved once processBatch has returned.
C11_ForceAwaitsDrain ==
    /\ \A d \in 1..Len(drains) :
          drains[d].trigger = "force" =>
             /\ drains[d].stage # "done" => drains[d].future = "pending"
             /\ drains[d].stage = "done" => drains[d].future = "resolved"
    /\ (lastOp.op = "force" /\ lastOp.drain # 0) =>
          /\ lastOp.future = "pending"
          /\ drains[lastOp.drain].stage = "downloading"
          /\ drains[lastOp.drain].trigger = "force"
\* The caller of one forceProcess still waits while its drain notifies, and
\* the caller of an earlier one has been answered.
C11_Witness ==
    \E d, e \in 1..Len(drains) :
        /\ drains[d].trigger = "force" /\ drains[d].stage = "notifying"
        /\ drains[d].future = "pending"
        /\ drains[e].trigger = "force" /\ drains[e].stage = "done"
        /\ drains[e].future = "resolved"

\* C12: forceProcess with nothing pending.  When the guild has no Map or an
\* empty one, forceProcess starts no drain (no download, upload or
\* notification), changes no pending Map and no history of files, its
\* promise resolves, and afterwards the guild has no armed and no recorded
\* timer.
C12_Step ==
    (lastOp'.op = "force" /\ GuildFiles(lastOp'.guildId) = <<>>) =>
        LET g == lastOp'.guildId
        IN  /\ drains' = drains
            /\ lastOp'.drain = 0
            /\ lastOp'.future = "resolved"
            /\ pendingFiles' = pendingFiles
            /\ submitted' = submitted
            /\ {h \in scheduled' : h.guildId = g} = {}
            /\ g \notin DOMAIN timers'
C12_ForceOnEmpty == [][C12_Step]_vars
\* forceProcess found the Map emptied by a cancel, whose timer was armed.
C12_Witness ==
    /\ lastOp.op = "force" /\ lastOp.drain = 0
    /\ lastOp.window.cancels
    /\ lastOp.guildId \in DOMAIN pendingFiles
    /\ pendingFiles[lastOp.guildId] = <<>>
    /\ scheduled = {} /\ timers = <<>>
    /\ now > 0

\* C13: a timer callback that finds the guild's Map empty starts no drain
\* (no download, upload or notification) and leaves the guild idle: an empty
\* Map and no timer recorded in this.timers.
C13_Step ==
    (lastOp'.op = "fire" /\ GuildFiles(lastOp'.guildId) = <<>>) =>
        /\ drains' = drains
        /\ pendingFiles' = pendingFiles
        /\ lastOp'.guildId \notin DOMAIN timers'
C13_IdleAfterEmptyFire == [][C13_Step]_vars

\* C14: a cancelled file is never drained.  After a file of a message was
\* submitted and a cancel for that message was applied, no later drain
\* takes a file of that message unless it is submitted again; stated for
\* the drain that starts right after the cancel.
C14_Step ==
    (lastOp.op = "cancel" /\ lastOp.messageId # NoFile
        /\ lastOp'.op \in {"fire", "force"} /\ lastOp'.guildId = lastOp.guildId
        /\ lastOp'.drain # 0) =>
       \A e \in Range(drains'[lastOp'.drain].filesToProcess) :
          e.messageId # lastOp.messageId
C14_NoFileOfCancelledMessage == [][C14_Step]_vars

\* C15: a failed download is isolated.  While downloads of a drain are
\* outstanding the drain keeps downloading, whatever the others did, and a
\* settled download keeps its result; once all have settled and at least
\* one succeeded, the drain goes on to pack exactly the files that
\* succeeded, in snapshot order, and uploads that archive once; the
\* notification lists the same files.
OkFilenames(drain) ==
    LET valid == SelectSeq([i \in 1..Len(drain.filesToProcess) |-> i],
                           LAMBDA i : drain.downloads[i] = "ok")
    IN  [k \in 1..Len(valid) |-> drain.filesToProcess[valid[k]].filename]
C15_Step ==
    \A d \in 1..Len(drains) :
        /\ (drains[d].stage = "downloading" /\ ~Settled(drains[d])) =>
              /\ drains'[d].stage = "downloading"
              /\ drains'[d].filesToProcess = drains[d].filesToProcess
              /\ \A i \in 1..Len(drains[d].downloads) :
                    drains[d].downloads[i] # "pending" =>
                       drains'[d].downloads[i] = drains[d].downloads[i]
        /\ (drains[d].stage = "downloading" /\ Settled(drains[d])
               /\ OkFilenames(drains[d]) # <<>> /\ drains'[d] # drains[d]) =>
              /\ drains'[d].stage = "packing"
              /\ drains'[d].zipEntries = OkFilenames(drains[d])
              /\ drains'[d].uploadCalls = 0
        /\ drains'[d].stage \in {"uploading", "notifying"} =>
              /\ drains'[d].uploadCalls = 1
              /\ drains'[d].zipEntries = OkFilenames(drains'[d])
              /\ Len(drains'[d].zipEntries) =
                    Cardinality({i \in 1..Len(drains'[d].downloads) :
                                    drains'[d].downloads[i] = "ok"})
        /\ drains'[d].stage = "notifying" =>
              [k \in 1..Len(drains'[d].fileList) |-> drains'[d].fileList[k].filename]
                 = drains'[d].zipEntries
C15_PartialFetchFailure == [][C15_Step]_vars
\* Of a snapshot of two files the first download failed; the archive with
\* the second file alone is being uploaded.
C15_Witness ==
    \E d \in 1..Len(drains) :
        /\ drains[d].stage = "uploading"
        /\ Len(drains[d].filesToProcess) = 2
        /\ drains[d].downloads = <<"failed", "ok">>
        /\ drains[d].zipEntries = <<drains[d].filesToProcess[2].filename>>
        /\ drains[d].uploadCalls = 1

\* C16: every download failed.  The step that finds all downloads of a
\* snapshot settled and none successful ends the drain there: nothing was
\* packed, the upload and the notifier were never called, and processBatch
\* returns normally (its promise resolves).  No drain packs an empty archive
\* or uploads without a successful download.
C16_Step ==
    \A d \in 1..Len(drains) :
        /\ (drains[d].stage = "downloading" /\ Settled(drains[d])
               /\ OkFilenames(drains[d]) = <<>> /\ drains'[d] # drains[d]) =>
              /\ drains[d].zipEntries = <<>>
              /\ drains[d].uploadCalls = 0 /\ drains[d].notifyCalls = 0
              /\ drains'[d].stage = "done"
              /\ drains'[d].promise = "resolved"
              /\ drains'[d].future # "rejected"
              /\ lastOp' = [op |-> "pipeline", ended |-> "downloading"]
        /\ drains'[d].stage \in {"packing", "uploading", "notifying"} =>
              /\ drains'[d].zipEntries # <<>>
              /\ OkFilenames(drains'[d]) # <<>>
        /\ (drains[d].stage = "downloading" /\ drains'[d].stage = "done") =>
              OkFilenames(drains[d]) = <<>>
C16_AllFetchesFail == [][C16_Step]_vars
\* A drain of two files has ended in its download stage, and its caller has
\* been answered.
C16_Witness ==
    /\ lastOp = [op |-> "pipeline", ended |-> "downloading"]
    /\ Len(submitted) = 2
    /\ \A s \in 1..2 : submitted[s].fate = "drained"
    /\ Len(drains) = 1
    /\ drains[1].stage = "done" /\ drains[1].promise = "resolved"
    /\ drains[1].future = "resolved"

\* C17: a failed upload ends the drain.  From the upload stage a drain goes
\* either to the notifier, with its one upload call made, or, when the
\* upload is rejected, straight to its end: the notifier was not called,
\* no second upload is issued, no pending Map and no timer changes, and the
\* files of the snapshot are in no pending Map.  An ended drain does nothing
\* more, and a drained file never returns to a pending Map.
C17_Step ==
    /\ \A d \in 1..Len(drains) :
          /\ (drains[d].stage = "uploading" /\ drains'[d] # drains[d]) =>
                \/ /\ drains'[d].stage = "notifying"
                   /\ drains'[d].uploadCalls = 1
                \/ /\ drains'[d].stage = "done"
                   /\ drains[d].uploadCalls = 1 /\ drains[d].notifyCalls = 0
                   /\ lastOp' = [op |-> "pipeline", ended |-> "uploading"]
                   /\ pendingFiles' = pendingFiles
                   /\ timers' = timers /\ scheduled' = scheduled
                   /\ \A g \in DOMAIN pendingFiles' :
                         Sids(pendingFiles'[g]) \cap Sids(drains[d].filesToProcess) = {}
                   /\ \A s \in Sids(drains[d].filesToProcess) :
                         submitted'[s].fate = "drained"
          /\ drains[d].stage = "done" => drains'[d] = drains[d]
    /\ \A s \in 1..Len(submitted) :
          submitted[s].fate = "drained" =>
             /\ submitted'[s].fate = "drained"
             /\ \A g \in DOMAIN pendingFiles' : s \notin Sids(pendingFiles'[g])
C17_UploadFailureTerminal == [][C17_Step]_vars
\* The upload of the only drain was rejected: the drain has ended in its
\* upload stage and the Map it had emptied is still empty.
C17_Witness ==
    /\ lastOp = [op |-> "pipeline", ended |-> "uploading"]
    /\ Len(drains) = 1 /\ drains[1].stage = "done"
    /\ Len(submitted) = 2
    /\ \A s \in 1..2 : submitted[s].fate = "drained"
    /\ pendingFiles[drains[1].guildId] = <<>>

\* C18: a failure inside a drain stays inside it.  Whatever stage a drain
\* ends in (no download left, packing, upload or notifier rejected, or the
\* notifier done), processBatch returns normally: its promise resolves, an
\* awaiting forceProcess resolves, and no promise is ever rejected.  No step
\* of a drain after its snapshot changes a pending Map, a recorded timer or
\* an armed timer, so the collector goes on from the state its own
\* operations left.
C18_Step ==
    /\ \A d \in 1..Len(drains') : drains'[d].promise \in {"pending", "resolved"}
    /\ \A d \in 1..Len(drains') : drains'[d].future \in {"none", "pending", "resolved"}
    /\ \A d \in 1..Len(drains) :
          (drains[d].stage # "done" /\ drains'[d].stage = "done") =>
             /\ drains'[d].promise = "resolved"
             /\ drains'[d].future = IF drains[d].trigger = "force" THEN "resolved" ELSE "none"
             /\ lastOp' = [op |-> "pipeline", ended |-> drains[d].stage]
    /\ lastOp'.op = "pipeline" =>
          /\ pendingFiles' = pendingFiles
          /\ timers' = timers
          /\ scheduled' = scheduled
          /\ submitted' = submitted
          /\ Len(drains') = Len(drains)
C18_FailuresContained == [][C18_Step]_vars
\* Packing failed in a drain started by forceProcess: the drain has ended,
\* its caller has been answered, and the file submitted meanwhile is still
\* pending with its timer armed.
C18_Witness ==
    /\ lastOp = [op |-> "pipeline", ended |-> "packing"]
    /\ \E d \in 1..Len(drains) :
          /\ drains[d].stage = "done" /\ drains[d].trigger = "force"
          /\ drains[d].promise = "resolved" /\ drains[d].future = "resolved"
          /\ Len(GuildFiles(drains[d].guildId)) = 1
          /\ LiveTimers(drains[d].guildId) # {}

\* C19: the replacement flag of a submission.  The PendantFile that
\* handleFileEvent stores has isReplacement true exactly when the guild's
\* pending Map held an entry of the same filename when it was called; in
\* particular it is false when a drain has taken the earlier entry.
C19_Step ==
    lastOp'.op = "submit" =>
        LET g    == lastOp'.guildId
            sid  == Len(submitted')
            name == submitted'[sid].filename
            was  == \E old \in Range(GuildFiles(g)) : old.filename = name
        IN  /\ lastOp'.isReplacement = was
            /\ \E e \in Range(pendingFiles'[g]) :
                  /\ e.sid = sid
                  /\ e.filename = name
                  /\ e.isReplacement = was
C19_ReplacementFlag == [][C19_Step]_vars
\* A filename is submitted again while the drain that took its earlier
\* entry is in flight: the new entry is no replacement.
C19_Witness ==
    /\ lastOp.op = "submit" /\ ~lastOp.isReplacement
    /\ \E e \in Range(GuildFiles(lastOp.guildId)) :
          /\ e.sid = Len(submitted)
          /\ ~e.isReplacement
          /\ \E d \in InFlightOf(lastOp.guildId) :
                \E old \in Range(drains[d].filesToProcess) : old.filename = e.filename

\* C20 as stated, in the case it names (submit, cancel, submit again): a
\* file is flagged as a replacement whenever its filename had been
\* submitted earlier in the same window, so the entry stored by a
\* submission that directly follows the cancel of the same filename is
\* flagged.
C20_FlagAfterCancel ==
    (lastOp.op = "submit" /\ lastOp.resubmits) =>
        \A e \in Range(GuildFiles(lastOp.guildId)) :
           e.sid = Len(submitted) => e.isReplacement

\* C20, amended: the flag of a notification line is the flag of the pending
\* entry the drain took, which is true exactly when its filename was in the
\* guild's pending Map when that entry was submitted.  A PendantFile keeps
\* its flag from the Map through the snapshot, and the file list carries,
\* for each valid download in snapshot order, the filename and flag of its
\* PendantFile.  A filename submitted again after its cancel is not flagged.
Held(ps, ds) ==
    UNION {Range(ps[g]) : g \in DOMAIN ps} \cup
    UNION {Range(ds[d].filesToProcess) : d \in 1..Len(ds)}
C20_Step ==
    /\ lastOp'.op = "submit" =>
          \A e \in Range(pendingFiles'[lastOp'.guildId]) :
             e.sid = Len(submitted') =>
                (e.isReplacement <=>
                    \E old \in Range(GuildFiles(lastOp'.guildId)) :
                       old.filename = e.filename)
    /\ \A e \in Held(pendingFiles, drains), f \in Held(pendingFiles', drains') :
          e.sid = f.sid => e = f
    /\ \A d \in 1..Len(drains') :
          drains'[d].stage = "notifying" =>
             LET drain == drains'[d]
                 valid == SelectSeq([i \in 1..Len(drain.filesToProcess) |-> i],
                                    LAMBDA i : drain.downloads[i] = "ok")
             IN  drain.fileList =
                    [k \in 1..Len(valid) |->
                        [filename      |-> drain.filesToProcess[valid[k]].filename,
                         isReplacement |-> drain.filesToProcess[valid[k]].isReplacement]]
C20_FlagInManifest == [][C20_Step]_vars
\* A filename was submitted, cancelled and submitted again: its entry, the
\* only one pending, is no replacement.
C20_Witness ==
    /\ lastOp.op = "submit" /\ lastOp.resubmits /\ ~lastOp.isReplacement
    /\ Len(submitted) = 2 /\ submitted[1].fate = "dropped"
    /\ Len(GuildFiles(lastOp.guildId)) = 1
    /\ GuildFiles(lastOp.guildId)[1].sid = 2
    /\ ~GuildFiles(lastOp.guildId)[1].isReplacement

\* C21: one Map and one timer per guild.  this.pendingFiles holds at most
\* one Map per guild (it is keyed by guild id), and every guild has at most
\* one armed timer, which is then the one recorded for it in this.timers.
C21_OneMapOneTimer ==
    /\ DOMAIN pendingFiles \subseteq Guilds
    /\ DOMAIN timers \subseteq Guilds
    /\ \A g \in Guilds :
          /\ Cardinality(LiveTimers(g)) <= 1
          /\ LiveTimers(g) # {} => (g \in DOMAIN timers /\ LiveTimers(g) = {timers[g]})
    /\ \A h \in scheduled : h.guildId \in Guilds
\* A file is pending behind a drain in flight, after a second timer was
\* armed for the guild later than the first: one timer is armed.
C21_Witness ==
    \E g \in Guilds :
        /\ InFlightOf(g) # {}
        /\ Len(GuildFiles(g)) = 1
        /\ Cardinality(LiveTimers(g)) = 1
        /\ timers[g].id > 1
        /\ timers[g].deadline > BATCH_WAIT_MS

\* C22: guilds are independent.  Whatever step is taken, the pending Map,
\* the recorded timer and the armed timers of a guild change only when the
\* step is a submit, a cancel, a timer callback or a forceProcess of that
\* very guild; the rest of a drain changes those of no guild.
GuildState(g, ps, ts, queue) ==
    <<IF g \in DOMAIN ps THEN <<ps[g]>> ELSE <<>>,
      IF g \in DOMAIN ts THEN <<ts[g]>> ELSE <<>>,
      {h \in queue : h.guildId = g}>>
C22_Step ==
    \A g \in Guilds :
        GuildState(g, pendingFiles', timers', scheduled')
              # GuildState(g, pendingFiles, timers, scheduled) =>
           /\ lastOp'.op \in {"submit", "cancel", "fire", "force"}
           /\ lastOp'.guildId = g
C22_GuildsIndependent == [][C22_Step]_vars
\* forceProcess has started a drain for one guild while the other has a
\* file pending, its timer armed and a drain of its own in flight.
C22_Witness ==
    /\ lastOp.op = "force" /\ lastOp.drain # 0
    /\ \E g \in Guilds \ {lastOp.guildId} :
          /\ Len(GuildFiles(g)) = 1
          /\ LiveTimers(g) # {}
          /\ InFlightOf(g) # {}

\* C23: getPendingFiles returns a copy.  The call returns exactly the
\* guild's pending entries, in order (none for a guild without a Map), and
\* changes no Map, timer or drain; and what the caller reads from the list
\* it holds is not changed by any later submit, cancel or drain.
C23_Step ==
    /\ lastOp'.op = "list" =>
          /\ Contents(listed)' = GuildFiles(lastOp'.guildId)
          /\ listed'.kind = "array"
          /\ lastOp'.guildId \notin DOMAIN pendingFiles => Contents(listed)' = <<>>
          /\ pendingFiles' = pendingFiles
          /\ timers' = timers /\ scheduled' = scheduled
          /\ drains' = drains
    /\ lastOp'.op # "list" => Contents(listed)' = Contents(listed)
C23_AccessorReturnsCopy == [][C23_Step]_vars
\* The caller still holds both files it was given, though one of them has
\* since been cancelled and the other drained.
C23_Witness ==
    /\ Len(listed.items) = 2
    /\ listed.guildId \in DOMAIN pendingFiles
    /\ pendingFiles[listed.guildId] = <<>>
    /\ \E a, b \in 1..Len(submitted) :
          /\ submitted[a].fate = "dropped" /\ submitted[b].fate = "drained"
          /\ {a, b} = Sids(listed.items)

\* A step in which the notifier of a drain settles.
C24_Notified == lastOp'.op = "pipeline" /\ "messages" \in DOMAIN lastOp'
\* With a destination and a successful send the notifier emits one message:
\* every line of the manifest, replacements flagged, and the archive URL.
C24_Emits ==
    C24_Notified /\ lastOp'.destination = "resolved" /\ lastOp'.logs \in {<<"created">>, <<"warn", "created">>, <<"sent">>} =>
        /\ Len(lastOp'.messages) = 1
        /\ lastOp'.messages[1].text = Message(lastOp'.manifest, lastOp'.url)
        /\ lastOp'.url = "downloadPage"
        /\ \E d \in 1..Len(drains) :
              /\ drains[d].stage = "notifying" /\ drains'[d].stage = "done"
              /\ lastOp'.manifest = FileList(drains[d])
              /\ Len(lastOp'.manifest) = Len(validDownloads(drains[d]))
              /\ Len(lastOp'.manifest) > 0
\* The upload stands: the drain is over, and nothing of it is run again.
C24_UploadStands ==
    C24_Notified =>
        \E d \in 1..Len(drains) :
           /\ drains[d].stage = "notifying" /\ drains[d].uploadCalls = 1
           /\ drains'[d] = Returned(drains[d])
           /\ \A e \in 1..Len(drains) : e # d => drains'[e] = drains[e]
           /\ Len(drains') = Len(drains)
\* Without a destination nothing is emitted.
C24_Silent ==
    C24_Notified /\ lastOp'.destination = "unresolved" => lastOp'.messages = <<>>
\* Without a destination the failure is logged.
C24_Logged ==
    C24_Notified /\ lastOp'.destination = "unresolved" => "error" \in Range(lastOp'.logs)
\* C24: the notifier's contract.  After a successful upload the notifier
\* emits a single message with every line of the manifest (replacements
\* flagged) and the archive URL; when it has no destination to post into it
\* emits no message and logs the failure; in either case the upload stands
\* and is not repeated.
C24_Step == C24_Emits /\ C24_UploadStands /\ C24_Silent /\ C24_Logged
C24_NotifierContract == [][C24_Step]_vars

\* C25: archive names are unique across batches.  Any two distinct drains
\* whose archives are being uploaded, of one guild or of two, carry
\* different archive names.
C25_UniqueArchiveNames ==
    \A d, e \in 1..Len(drains) :
       /\ d # e
       /\ drains[d].stage = "uploading" /\ drains[e].stage = "uploading"
       => drains[d].zipFilename # drains[e].zipFilename
\* The name is the clock at packing time cut to whole seconds: a drain
\* being uploaded carries a name of a second that is not after the clock's.
C25_NameFromClock ==
    \A d \in 1..Len(drains) :
       drains[d].stage = "uploading" =>
          \E second \in 0..Timestamp(now) :
             drains[d].zipFilename = ZipFilename(second * 1000)

\* No submit, cancel or forceProcess has arrived since the clock or a timer
\* last moved.
C26_Quiet == lastOp.op \notin {"submit", "cancel", "force"}
\* The guild's timer has fired and its callback has drained the Map.
C26_Drained ==
    /\ lastOp.op = "fire" /\ lastOp.guildId = "g1"
    /\ lastOp.drain > 0
    /\ drains[lastOp.drain].trigger = "timer"
    /\ GuildFiles("g1") = <<>>
\* The clock is never held back while a timer waits.
C26_ClockRuns ==
    (\E h \in scheduled : now < h.deadline) => now + TickMs <= LiveHorizon
\* C26: automatic drain liveness.  If the guild's Map is non-empty and from
\* then on no submit, cancel or forceProcess arrives for the guild, then
\* eventually the timer fires, its callback starts a drain by the procedure
\* forceProcess uses, and the Map is empty.
C26_AutomaticDrain ==
    []((Len(GuildFiles("g1")) > 0 /\ []C26_Quiet) => <>C26_Drained)
\* The timer has drained a Map that held both files of the message.
C26_Witness ==
    /\ C26_Drained
    /\ Cardinality({i \in 1..Len(submitted) : submitted[i].fate # "dropped"}) >= 2
    /\ lastOp.window.firstSubmitAt < lastOp.window.lastSubmitAt

\* C27: no pending file is stranded.  Whenever a guild's pending Map is
\* non-empty, a timer is armed for the guild: this.timers records one and
\* it is still scheduled.
C27_PendingHasTimer ==
    \A g \in DOMAIN pendingFiles :
       Len(pendingFiles[g]) > 0 =>
          /\ g \in DOMAIN timers
          /\ timers[g] \in scheduled
          /\ timers[g].guildId = g
\* A file submitted while a forced drain is in flight waits with its own
\* timer armed, after a cancellation has removed another.
C27_Witness ==
    /\ Len(GuildFiles("g1")) > 0
    /\ "g1" \in DOMAIN timers /\ timers["g1"] \in scheduled
    /\ \E d \in 1..Len(drains) : InFlight(d) /\ drains[d].trigger = "force"
    /\ \E s \in 1..Len(submitted) : submitted[s].fate = "dropped"

\* C28: after its snapshot a drain touches no Map and no timer.  A step of
\* the rest of a drain (a download, the archive, the upload or the notifier
\* settling, well or badly) leaves every guild's pending Map, this.timers,
\* the scheduled timers and every guild's window as they were.
C28_Step ==
    lastOp'.op = "pipeline" =>
        /\ pendingFiles' = pendingFiles
        /\ timers' = timers
        /\ scheduled' = scheduled
        /\ window' = window
        /\ now' = now
C28_DrainWritesNothing == [][C28_Step]_vars
\* The only drain has just ended, and the file submitted while it ran is
\* pending with its timer armed and its window open.
C28_Witness ==
    /\ lastOp.op = "pipeline" /\ lastOp.ended # NoFile
    /\ Len(drains) = 1 /\ drains[1].stage = "done"
    /\ Len(GuildFiles("g1")) > 0
    /\ "g1" \in DOMAIN timers /\ timers["g1"] \in scheduled
    /\ window["g1"] # NoWindow

\* C29: a cancel removes every pending file of the message.  When
\* handleCancelEvent returns, the guild's pending Map holds no entry that
\* came from the given message, however many files the message carried.
C29_Step ==
    lastOp'.op = "cancel" /\ lastOp'.messageId # NoFile =>
        \A e \in Range(pendingFiles'[lastOp'.guildId]) :
           e.messageId # lastOp'.messageId
C29_CancelRemovesAll == [][C29_Step]_vars
\* What does hold: the cancel removes the first pending entry of the
\* message, in the Map's insertion order, and no other.
C29_FirstOnly ==
    lastOp'.op = "cancel" /\ lastOp'.messageId # NoFile =>
        LET before == pendingFiles[lastOp'.guildId]
            first  == CHOOSE i \in Matching(lastOp'.guildId, lastOp'.messageId) :
                         \A j \in Matching(lastOp'.guildId, lastOp'.messageId) : i <= j
        IN  /\ lastOp'.removed = before[first].filename
            /\ pendingFiles'[lastOp'.guildId] =
                  [k \in 1..(Len(before) - 1) |->
                      IF k < first THEN before[k] ELSE before[k + 1]]
C29_CancelRemovesFirst == [][C29_FirstOnly]_vars

\* C30: a snapshot is out of a late cancel's reach.  A cancel changes no
\* drain; as long as a drain is in flight its snapshot stays as taken, with
\* one download per file; and what is packed, uploaded and listed in the
\* notification is every snapshot file whose download succeeded, the files
\* of a message cancelled in the meantime among them.
C30_Step ==
    /\ lastOp'.op = "cancel" => drains' = drains
    /\ \A d \in 1..Len(drains) :
          /\ (drains[d].stage # "done" /\ drains'[d].stage # "done") =>
                /\ drains'[d].filesToProcess = drains[d].filesToProcess
                /\ Len(drains'[d].downloads) = Len(drains[d].filesToProcess)
          /\ drains'[d].stage \in {"packing", "uploading", "notifying"} =>
                drains'[d].zipEntries = OkFilenames(drains'[d])
          /\ drains'[d].stage = "notifying" =>
                [k \in 1..Len(drains'[d].fileList) |-> drains'[d].fileList[k].filename]
                   = OkFilenames(drains'[d])
C30_SnapshotSurvivesCancel == [][C30_Step]_vars
\* A cancel has just found nothing to remove, the message's two files being
\* in the snapshot of a drain whose downloads are still outstanding.
C30_Witness ==
    /\ lastOp.op = "cancel" /\ lastOp.removed = NoFile
    /\ GuildFiles("g1") = <<>>
    /\ \E d \in InFlightOf("g1") :
          /\ drains[d].stage = "downloading"
          /\ Len(drains[d].filesToProcess) = 2
          /\ \A i \in 1..2 : /\ drains[d].filesToProcess[i].messageId = "m1"
                             /\ drains[d].downloads[i] = "pending"

\* The guild has nothing pending and no recorded timer: either it has no
\* Map at all, or an empty one.
C31_Blank(g) == GuildFiles(g) = <<>> /\ g \notin DOMAIN timers
\* C31: a guild without a Map behaves like a guild with an empty Map and no
\* timer.  What each operation returns, writes and leaves behind from such a
\* state is fixed without reference to which of the two it is: a submit
\* stores the file unflagged and arms a full window; a cancel, a
\* getPendingFiles, a timer callback and a forceProcess find nothing, start
\* no drain and leave the guild with nothing pending and no timer.
C31_Step ==
    LET g == lastOp'.guildId
        after == IF g \in DOMAIN pendingFiles' THEN pendingFiles'[g] ELSE <<>>
    IN  (lastOp'.op \in {"submit", "cancel", "list", "fire", "force"} /\ C31_Blank(g)) =>
           /\ drains' = drains
           /\ lastOp'.op = "submit" =>
                 /\ Len(after) = 1
                 /\ after[1].sid = Len(submitted')
                 /\ ~after[1].isReplacement /\ ~lastOp'.isReplacement
                 /\ timers' = Put(timers, g, SetTimeout(g, BATCH_WAIT_MS))
                 /\ scheduled' = scheduled \cup {timers'[g]}
           /\ lastOp'.op # "submit" =>
                 /\ after = <<>>
                 /\ \A h \in DOMAIN pendingFiles : pendingFiles'[h] = pendingFiles[h]
                 /\ timers' = timers
                 /\ scheduled' \subseteq scheduled
                 /\ {h \in scheduled' : h.guildId = g} = {}
                 /\ submitted' = submitted
           /\ lastOp'.op = "cancel" => lastOp'.removed = NoFile /\ scheduled' = scheduled
           /\ lastOp'.op = "list" => Contents(listed)' = <<>> /\ scheduled' = scheduled
           /\ lastOp'.op = "fire" => lastOp'.drain = 0
           /\ lastOp'.op = "force" =>
                 /\ lastOp'.drain = 0 /\ scheduled' = scheduled
                 /\ lastOp'.future = "resolved"
C31_AbsentIsEmpty == [][C31_Step]_vars
\* forceProcess has just run on a guild whose Map an earlier drain left
\* empty, and has started nothing.
C31_Witness ==
    /\ lastOp.op = "force" /\ lastOp.drain = 0
    /\ "g1" \in DOMAIN pendingFiles /\ pendingFiles["g1"] = <<>>
    /\ "g1" \notin DOMAIN timers
    /\ Len(drains) >= 1
\* No notifier of the guild is running.
C32_NoNotifierRunning(g) ==
    \A d \in 1..Len(drains) : drains[d].guildId = g => drains[d].stage # "notifying"
\* C32: rotation keeps one output channel per guild.  Whenever no notifier
\* of a guild is running and one has created a channel before, the guild
\* has exactly one output channel, and it is the one whose id is persisted.
C32_OneOutputChannel ==
    \A g \in Guilds :
       (C32_NoNotifierRunning(g) /\ output[g].last # NoChannel) =>
          output[g].channels = {output[g].last}

\* C33: the manual revision arms no timer.  No timer is ever recorded or
\* scheduled; every drain was started by forceProcess; and a step that is
\* not forceProcess starts no drain and takes no pending file away other
\* than by a cancel or a replacement.
C33_Step ==
    /\ timers' = <<>> /\ scheduled' = {}
    /\ \A d \in 1..Len(drains') : drains'[d].trigger = "force"
    /\ lastOp'.op # "force" =>
          /\ Len(drains') = Len(drains)
          /\ \A s \in 1..Len(submitted) :
                submitted[s].fate = "pending" => submitted'[s].fate \in {"pending", "dropped"}
    /\ lastOp'.op = "tick" => pendingFiles' = pendingFiles
C33_ManualNeverArms == [][C33_Step]_vars
\* A window's length after the post, the file is still pending and no timer
\* is armed.
C33_Witness ==
    /\ now >= BATCH_WAIT_MS
    /\ Len(GuildFiles("g1")) > 0
    /\ timers = <<>> /\ scheduled = {}
    /\ drains = <<>>

\* C34: an attachment is archived at most once.  No archive that a
\* createzip uploads holds an attachment of a message that an archive of an
\* earlier createzip in the guild already held.
C34_Step ==
    (lastOp'.op = "pipeline" /\ "again" \in DOMAIN lastOp') => lastOp'.again = {}
C34_ArchivedOnce == [][C34_Step]_vars
\* What does hold: within one archive no attachment appears twice, since a
\* snapshot has one entry per filename.
C34_OncePerArchive ==
    \A d \in 1..Len(drains) :
       \A i, j \in 1..Len(drains[d].filesToProcess) :
          drains[d].filesToProcess[i].filename = drains[d].filesToProcess[j].filename
             => i = j

\* The messages in the guild's inputfolder that carry the filename.
C35_PostsOf(g, filename) ==
    {i \in 1..Len(inputfolder[g].messages) :
        \E k \in 1..Len(AttachmentSeq(inputfolder[g].messages[i])) :
           AttachmentSeq(inputfolder[g].messages[i])[k] = filename}
\* C35: a file posted once is not flagged.  A pending file or a file of a
\* snapshot, hence of a manifest, is flagged as a replacement only if more
\* than one message of the channel carries its filename.
C35_PostedOnceUnflagged ==
    \A g \in Guilds :
       \A e \in Range(GuildFiles(g)) \cup
                UNION {Range(drains[d].filesToProcess) :
                          d \in {c \in 1..Len(drains) : drains[c].guildId = g}} :
          e.isReplacement => Cardinality(C35_PostsOf(g, e.filename)) >= 2

\* C36: createzip reports what the drain achieved.  Its final reply says
\* the upload is complete only if every file the drain took was fetched
\* and the archive was uploaded.
C36_Step ==
    (lastOp'.op = "pipeline" /\ "reply" \in DOMAIN lastOp'
        /\ lastOp'.reply = UploadComplete) =>
       /\ lastOp'.ended = "notifying"
       /\ lastOp'.succeeded = lastOp'.attempted
C36_ReplyReportsOutcome == [][C36_Step]_vars
\* What does hold: the reply follows only once the drain is over.
C36_ReplyAfterDrain ==
    \A g \in Guilds :
       inputfolder[g].command = "none" =>
          \A d \in 1..Len(drains) : drains[d].guildId = g => drains[d].stage = "done"

\* ------------------------------------------------- filenames and letter case
\* Attachment names as users post them: two spellings of one name that
\* differ in letter case only, and another name.  Each passes the .jar
\* filter, which lower-cases the name before it looks at the extension.
CaseFilenames == {"a.jar", "A.jar", "b.jar"}
\* String.prototype.toLowerCase on the names above.
toLowerCase(name) == IF name = "A.jar" THEN "a.jar" ELSE name

\* One guild, two messages carrying any of the names above; the timer
\* drains what is pending.
NextCase ==
    \/ \E m \in MessageIds, f \in CaseFilenames : handleFileEvent("g1", m, f)
    \/ \E m \in MessageIds : handleCancelEvent("g1", m)
    \/ \E h \in scheduled : TimerFire(h)
    \/ Tick(BATCH_WAIT_MS, 2 * BATCH_WAIT_MS)
    \/ \E d \in 1..Len(drains) :
          \E results \in {{}, 1..Len(drains[d].downloads)}, uploadOk \in BOOLEAN :
             DrainCompletes(d, results, uploadOk, TRUE)
SpecCase == Init /\ [][NextCase]_vars

\* C37: filename deduplication is case-insensitive and case-preserving: two
\* pending entries of one guild never bear filenames that differ in letter
\* case only, a submission whose filename matches a pending entry up to
\* letter case is flagged as a replacement, and the entry then bears the
\* filename as the latest submission spelt it.
C37_OneEntryPerName ==
    \A g \in DOMAIN pendingFiles :
       \A i, j \in 1..Len(pendingFiles[g]) :
          toLowerCase(pendingFiles[g][i].filename) = toLowerCase(pendingFiles[g][j].filename)
             => i = j
C37_Step ==
    lastOp'.op = "submit" =>
       LET g      == lastOp'.guildId
           before == GuildFiles(g)
           after  == pendingFiles'[g]
           latest == submitted'[Len(submitted')].filename
       IN  /\ (\E i \in 1..Len(before) :
                  toLowerCase(before[i].filename) = toLowerCase(latest))
                 => lastOp'.isReplacement
           /\ \A i \in 1..Len(after) :
                 toLowerCase(after[i].filename) = toLowerCase(latest)
                    => after[i].filename = latest
C37_CaseInsensitiveDedup == [][C37_Step]_vars
\* What the code keeps: the exact spelling is the key.
C37_OneEntryPerSpelling ==
    \A g \in DOMAIN pendingFiles :
       \A i, j \in 1..Len(pendingFiles[g]) :
          pendingFiles[g][i].filename = pendingFiles[g][j].filename => i = j

\* ------------------------------------------------------- GofileService
\* GofileService.ts line 103 and part_000 line 18.
FALLBACK_SERVERS == <<"store1", "store2", "store3", "store4", "store5">>
UPLOAD_SERVER == "store1"

\* What Gofile may answer the request for a server: the request fails in
\* transport (axios rejects, an HTTP error status included); status 'ok'
\* with a server; status 'ok' with none; another status.
ServersResponses ==
    {[transport |-> "failed", status |-> NoFile, server |-> NoFile],
     [transport |-> "ok", status |-> "ok", server |-> "best"],
     [transport |-> "ok", status |-> "ok", server |-> NoFile],
     [transport |-> "ok", status |-> "error", server |-> NoFile]}
\* What Gofile may answer an upload POST.
PostResponses ==
    {[transport |-> "failed", status |-> NoFile, downloadPage |-> NoFile],
     [transport |-> "ok", status |-> "ok", downloadPage |-> "downloadPage"],
     [transport |-> "ok", status |-> "error", downloadPage |-> NoFile]}
\* The answers one call of uploadFile may meet: to the request for a
\* server, of Math.random, and to the first and to a second POST, should
\* there be one.
GofileAnswers ==
    [servers : ServersResponses,
     random  : 1..Len(FALLBACK_SERVERS),
     posts   : [1..2 -> PostResponses]]

\* lines 108-120: the first server Gofile names, or one of the fallbacks at
\* random; a failure is caught and logged.
getBestServer(answers) ==
    IF /\ answers.servers.transport = "ok"
       /\ answers.servers.status = "ok"
       /\ answers.servers.server # NoFile
    THEN answers.servers.server
    ELSE FALLBACK_SERVERS[answers.random]
\* lines 29-40: the server Gofile names; anything else is thrown on.
getServer(answers) ==
    IF answers.servers.transport = "ok" /\ answers.servers.status = "ok"
    THEN [outcome |-> "resolved", value |-> answers.servers.server]
    ELSE [outcome |-> "rejected", value |-> NoFile]

\* lines 138-153: axios.post to the server settles.  Status 'ok' returns
\* the download page; another status throws, a rejection of axios.post is
\* thrown on by the catch.  posted lists the servers POSTed to.
afterPost(server, response) ==
    IF response.transport = "ok" /\ response.status = "ok"
    THEN [outcome |-> "resolved", value |-> response.downloadPage, posted |-> <<server>>]
    ELSE [outcome |-> "rejected", value |-> NoFile, posted |-> <<server>>]

\* Faulty variant: a failed POST is tried once more.
uploadFile_Retry(answers) ==
    LET server == getBestServer(answers)
        first  == afterPost(server, answers.posts[1])
    IN  IF first.outcome = "resolved"
        THEN first
        ELSE [afterPost(server, answers.posts[2]) EXCEPT !.posted = first.posted \o @]
\* lines 128-154
uploadFile(answers) == afterPost(getBestServer(answers), answers.posts[1])
\* lines 48-73: the revision that asks getServer; its rejection is thrown
\* on before anything is POSTed.
uploadFile_getServer(answers) ==
    LET server == getServer(answers)
    IN  IF server.outcome = "rejected"
        THEN [outcome |-> "rejected", value |-> NoFile, posted |-> <<>>]
        ELSE afterPost(server.value, answers.posts[1])
\* part_000 lines 26-50: the revision that POSTs to a fixed server.
uploadFile_store1(answers) == afterPost(UPLOAD_SERVER, answers.posts[1])

\* The revisions of the class; a call reads and writes nothing the class
\* keeps.
Revisions == {"getBestServer", "getServer", "store1"}
GofileService(revision, answers) ==
    CASE revision = "getBestServer" -> uploadFile(answers)
      [] revision = "getServer"     -> uploadFile_getServer(answers)
      [] revision = "store1"        -> uploadFile_store1(answers)

\* CollectorManager.ts lines 157-166: the drain's call of uploadFile runs
\* against Gofile's answers and settles.  The history keeps the answers
\* and what the call did with them.
UploadRuns(d, revision, answers) ==
    LET result == GofileService(revision, answers)
        after  == AfterUpload(drains[d], result.outcome = "resolved")
    IN  /\ InFlight(d) /\ drains[d].stage = "uploading"
        /\ drains' = [drains EXCEPT ![d] = after]
        /\ timers' = Continued(timers, after)
        /\ lastOp' = [op |-> "upload", guildId |-> drains[d].guildId,
                      revision |-> revision, answers |-> answers, result |-> result]
        /\ UNCHANGED <<now, pendingFiles, scheduled, submitted, window, listed, output,
                       inputfolder>>

\* Forced drains of one guild, one at a time, the upload of each run
\* against Gofile's answers; no time passes.
NextUpload ==
    \/ \E f \in Attachments("m2") : handleFileEvent("g1", "m2", f)
    \/ (\A d \in 1..Len(drains) : ~InFlight(d)) /\ forceProcess("g1")
    \/ \E d \in 1..Len(drains) : DownloadSettles(d, 1, TRUE)
    \/ \E d \in 1..Len(drains) : DownloadsResolve(d)
    \/ \E d \in 1..Len(drains) : PackSettles(d, TRUE)
    \/ \E d \in 1..Len(drains) :
          \E revision \in Revisions, answers \in GofileAnswers :
             UploadRuns(d, revision, answers)
    \/ \E d \in 1..Len(drains) : NotifierSettles(d, TRUE)
SpecUpload == Init /\ [][NextUpload]_vars

\* C38: uploadFile uploads at most once: a call issues at most one POST,
\* resolves exactly when it POSTed and the answer to that POST has status
\* 'ok', with that answer's download page, and rejects otherwise, be it
\* for another status or for a failure in transport.
C38_Step ==
    lastOp'.op = "upload" =>
       LET result == lastOp'.result
           first  == lastOp'.answers.posts[1]
       IN  /\ Len(result.posted) <= 1
           /\ result.outcome \in {"resolved", "rejected"}
           /\ result.outcome = "resolved" <=>
                 /\ Len(result.posted) = 1
                 /\ first.transport = "ok"
                 /\ first.status = "ok"
           /\ result.outcome = "resolved" => result.value = first.downloadPage
           /\ result.outcome = "rejected" => result.value = NoFile
C38_UploadAtMostOnce == [][C38_Step]_vars
\* A call of the current revision whose POST failed in transport and was
\* not repeated, although a second POST would have been answered 'ok'.
C38_Witness ==
    /\ lastOp.op = "upload"
    /\ lastOp.revision = "getBestServer"
    /\ lastOp.answers.posts[1].transport = "failed"
    /\ lastOp.answers.posts[2].status = "ok"
    /\ lastOp.result.outcome = "rejected"
    /\ Len(lastOp.result.posted) = 1
====
